---- MODULE Spec2Model ----
(***************************************************************************)
(* RegNido: offline-tolerant presence-event synchronisation.               *)
(*                                                                         *)
(* Server: create_presence_event (crud.py) behind the check-in, check-out  *)
(* and /sync endpoints (main.py), over the presenze and audit_log tables.  *)
(* Client: the desktop kiosk's pending_events queue (local_store.py) and   *)
(* its inline submit and flush (main_window.py).                           *)
(*                                                                         *)
(* Ten specifications share the state:                                     *)
(*   Spec        the server as an open system: any authenticated caller    *)
(*               sends check-in, check-out and /sync requests, one request *)
(*               at a time;                                                *)
(*   SpecSync    the same server under /sync batches of one or two events; *)
(*   SpecClient  one desktop client, an unreliable network, the server and *)
(*               a second device of the same site;                         *)
(*   SpecKiosk   the desktop client alone, under every answer the POST can *)
(*               meet (no connection, timeout, 401, 5xx), while a child    *)
(*               may be deleted;                                           *)
(*   SpecFlush   the flush timer over a queue longer than one /sync batch, *)
(*               with weak fairness on the answered flush;                 *)
(*   SpecSession the desktop client through starts, logins, logouts and    *)
(*               quits, with weak fairness on the answered timer tick;     *)
(*   SpecStore   LocalStore as a library, under any sequence of calls;     *)
(*   SpecProjector  the presence summary over the events of one child,     *)
(*               read at any time of the clock;                            *)
(*   SpecSummary  compute_presence_summary as a function of any sorted     *)
(*               list of events, any period and any time;                  *)
(*   SpecTx      request transactions interleaved statement by statement   *)
(*               over the PostgreSQL tables.                               *)
(***************************************************************************)
EXTENDS Integers, Sequences, FiniteSets, TLC

(***************************************************************************)
(* Bounds of the model.                                                    *)
(***************************************************************************)
MaxIds == 2        \* client_event_ids in use (uuid4 values, named 1, 2, ...)
MaxTime == 2       \* timestamp_evento values 1..MaxTime
MaxEvents == 4     \* SpecClient: events created; event k has id k and time k
MaxClicks == 3     \* SpecKiosk: clicks on Entra and Esce
MaxBatches == 2    \* SpecFlush: full /sync batches the longest queue holds
MaxStoreCalls == 5 \* SpecStore: calls on LocalStore
TicksPerSecond == 2 \* SpecProjector: resolution of timestamp_evento
DayTicks == 3      \* SpecProjector: length of a day

(***************************************************************************)
(* The directory: sedi, dispositivi and bambini rows (models.py).          *)
(* "d0" and "b0" are ids with no row.                                      *)
(***************************************************************************)
Sedi == {"s1", "s2"}
Bambini == {"b1", "b2"}
Dispositivi == {"d1", "d2", "d3", "d4"}

BambinoSede == [b \in Bambini |-> IF b = "b1" THEN "s1" ELSE "s2"]
DispositivoSede == [d \in Dispositivi |-> IF d = "d2" THEN "s2" ELSE "s1"]
DispositivoAttivo == [d \in Dispositivi |-> d # "d3"]

ENTRATA == "ENTRATA"
USCITA == "USCITA"
PresenceEventType == {ENTRATA, USCITA}

NoSede == "none"

\* Python's None for a Presenza row.
NoRow == [id |-> 0, client_event_id |-> 0, bambino_id |-> "b0", sede_id |-> NoSede,
          dispositivo_id |-> "d0", tipo_evento |-> "NONE", timestamp_evento |-> 0]

VARIABLES
    presenze,        \* table presenze, in insertion order
    audit,           \* table audit_log, a set of records
    bambino_attivo,  \* bambini.attivo
    used_ids,        \* how many client_event_ids have been generated so far
    last,            \* the last response of the server
    txs,             \* SpecTx: the request transactions in progress
    pending,         \* SpecClient: the pending_events table of the desktop client
    shown,           \* SpecClient: the dashboard row of the child ("none": no row)
    created,         \* SpecClient: the events the client has created, in creation order
    overtaken,       \* SpecClient: <<a, b>>: b was accepted inline while a was pending
    flushed,         \* SpecClient: the ids carried by a /sync call that was answered
    info,            \* SpecClient: the last message _show_info has shown
    store_log,       \* SpecStore: the last call on LocalStore, what it returned, and the
                     \* AUTOINCREMENT ids of the rows
    clock,           \* SpecProjector: datetime.now(timezone.utc), in ticks
    session          \* SpecSession: the view shown, the saved access_token, sync_timer

serverVars == <<presenze, audit, bambino_attivo>>
clientVars == <<pending, shown, created, overtaken, flushed, info, store_log>>
vars == <<presenze, audit, bambino_attivo, used_ids, last, txs, pending, shown, created,
          overtaken, flushed, info, store_log, clock, session>>

Range(s) == {s[i] : i \in 1..Len(s)}

(***************************************************************************)
(* create_presence_event, statement by statement.                          *)
(***************************************************************************)

\* Faulty variant: the idempotency lookup finds nothing
ExistingRows_Blind(rows, cid) == {}

\* select(Presenza).where(client_event_id == cid): the rows the scalar can return
ExistingRows(rows, cid) == {r \in Range(rows) : r.client_event_id = cid}

\* select(Dispositivo).where(id == d, attivo): its sede, or NoSede
DispositivoLookup(d) ==
    IF d \in Dispositivi /\ DispositivoAttivo[d] THEN DispositivoSede[d] ELSE NoSede

\* Faulty variant: the child is looked up without the device's sede
BambinoLookup_AnySede(attivo, b, sede) ==
    b \in Bambini /\ attivo[b]

\* select(Bambino).where(id == b, sede_id == sede, attivo)
BambinoLookup(attivo, b, sede) ==
    b \in Bambini /\ BambinoSede[b] = sede /\ attivo[b]

\* Faulty variant: the row inserted last, whatever its timestamp
LatestRows_LastInserted(rows, b, sede) ==
    LET mine == {r \in Range(rows) : r.bambino_id = b /\ r.sede_id = sede}
    IN  IF mine = {} THEN {NoRow}
        ELSE {r \in mine : \A o \in mine : o.id <= r.id}

\* select(Presenza).where(bambino, sede).order_by(timestamp_evento.desc()):
\* db.scalar takes the first row; rows with equal timestamps come in any order.
LatestRows(rows, b, sede) ==
    LET mine == {r \in Range(rows) : r.bambino_id = b /\ r.sede_id = sede}
    IN  IF mine = {} THEN {NoRow}
        ELSE {r \in mine : \A o \in mine : o.timestamp_evento <= r.timestamp_evento}

\* Faulty variant: only the open-entry check
SequenceCheck_NoConsecutive(latest, tipo) ==
    IF tipo = USCITA /\ (latest = NoRow \/ latest.tipo_evento # ENTRATA)
    THEN "uscita_senza_entrata"
    ELSE "ok"

\* Faulty variant: only the consecutive-type check
SequenceCheck_NoOpenEntry(latest, tipo) ==
    IF latest # NoRow /\ latest.tipo_evento = tipo THEN "consecutivo" ELSE "ok"

\* the two sequence checks on the latest row
SequenceCheck(latest, tipo) ==
    IF latest # NoRow /\ latest.tipo_evento = tipo THEN "consecutivo"
    ELSE IF tipo = USCITA /\ (latest = NoRow \/ latest.tipo_evento # ENTRATA)
         THEN "uscita_senza_entrata"
         ELSE "ok"

NewPresenza(rows, tipo, b, d, sede, cid, ts) ==
    [id |-> Len(rows) + 1, client_event_id |-> cid, bambino_id |-> b, sede_id |-> sede,
     dispositivo_id |-> d, tipo_evento |-> tipo, timestamp_evento |-> ts]

\* append_audit(azione="presence:...", entita="presenze", entita_id=str(presenza.id))
PresenceAudit(row) ==
    [azione |-> "presence", entita |-> "presenze", entita_id |-> row.id,
     bambino_id |-> row.bambino_id]

append_audit(aud, record) == aud \cup {record}

\* The outcome of the lookups and the sequence checks for a new event: "ok" or
\* the reason of the HTTPException; one member per row the `latest` query may return.
Validation(rows, attivo, tipo, b, d) ==
    LET sede == DispositivoLookup(d)
    IN  IF sede = NoSede THEN {"dispositivo"}
        ELSE IF ~BambinoLookup(attivo, b, sede) THEN {"bambino"}
        ELSE {SequenceCheck(latest, tipo) : latest \in LatestRows(rows, b, sede)}

HttpStatus(detail) ==
    IF detail \in {"dispositivo", "bambino"} THEN 404
    ELSE IF detail \in {"consecutivo", "uscita_senza_entrata"} THEN 400
    ELSE 200

\* raise HTTPException: nothing was written
Rejected(rows, aud, detail) ==
    [status |-> HttpStatus(detail), detail |-> detail, row |-> NoRow,
     presenze |-> rows, audit |-> aud]

\* Faulty variant: a replay of a stored event is audited as a new event
Replayed_Audited(rows, aud, existing) ==
    [status |-> 200, detail |-> "replay", row |-> existing, presenze |-> rows,
     audit |-> aud \cup {[azione |-> "presence", entita |-> "presenze",
                          entita_id |-> 0 - existing.id, bambino_id |-> existing.bambino_id]}]

\* return existing
Replayed(rows, aud, existing) ==
    [status |-> 200, detail |-> "replay", row |-> existing, presenze |-> rows, audit |-> aud]

\* db.add, db.flush, append_audit, return presenza
Created(rows, aud, tipo, b, d, cid, ts) ==
    LET p == NewPresenza(rows, tipo, b, d, DispositivoLookup(d), cid, ts)
    IN  [status |-> 200, detail |-> "created", row |-> p,
         presenze |-> Append(rows, p), audit |-> append_audit(aud, PresenceAudit(p))]

\* Faulty variant: the lookups and sequence checks run before the idempotency check
CreatePresenceEvent_ValidateFirst(rows, aud, attivo, tipo, b, d, cid, ts) ==
    {IF detail # "ok" THEN Rejected(rows, aud, detail)
     ELSE IF ExistingRows(rows, cid) # {}
          THEN Replayed(rows, aud, CHOOSE r \in ExistingRows(rows, cid) : TRUE)
          ELSE Created(rows, aud, tipo, b, d, cid, ts)
        : detail \in Validation(rows, attivo, tipo, b, d)}

\* Faulty variant: the idempotency lookup also compares the type of the event
CreatePresenceEvent_MatchType(rows, aud, attivo, tipo, b, d, cid, ts) ==
    IF {r \in ExistingRows(rows, cid) : r.tipo_evento = tipo} # {}
    THEN {Replayed(rows, aud, r) : r \in {x \in ExistingRows(rows, cid) : x.tipo_evento = tipo}}
    ELSE {IF detail # "ok" THEN Rejected(rows, aud, detail)
          ELSE Created(rows, aud, tipo, b, d, cid, ts)
             : detail \in Validation(rows, attivo, tipo, b, d)}

\* The possible outcomes of one call of create_presence_event on the tables.
CreatePresenceEvent(rows, aud, attivo, tipo, b, d, cid, ts) ==
    IF ExistingRows(rows, cid) # {}
    THEN {Replayed(rows, aud, r) : r \in ExistingRows(rows, cid)}
    ELSE {IF detail # "ok" THEN Rejected(rows, aud, detail)
          ELSE Created(rows, aud, tipo, b, d, cid, ts)
             : detail \in Validation(rows, attivo, tipo, b, d)}

(***************************************************************************)
(* The last response, as the caller sees it.                               *)
(***************************************************************************)
\* `outcomes` is what became of each event of the request, in order: "created",
\* "replay" or the reason of the rejection.
NoResponse == [op |-> "none", status |-> 0, outcomes |-> <<>>, accepted |-> 0, skipped |-> 0]

\* PresenceEventOut, or the HTTPException's status and detail
EventResponse(op, res) ==
    [op |-> op, status |-> res.status, outcomes |-> <<res.detail>>,
     accepted |-> 0, skipped |-> 0]

(***************************************************************************)
(* What a caller may send.  A client_event_id is either one that was sent  *)
(* before or the next fresh one: uuid4 values matter only up to equality.  *)
(***************************************************************************)
Min(a, b) == IF a < b THEN a ELSE b
Max(a, b) == IF a > b THEN a ELSE b

\* the orders in which a set of rows can be sorted by timestamp_evento
ChronologicalOrders(evs) ==
    {q \in [1..Cardinality(evs) -> evs] :
        /\ \A i, j \in 1..Cardinality(evs) : i # j => q[i] # q[j]
        /\ \A i, j \in 1..Cardinality(evs) :
              i < j => q[i].timestamp_evento <= q[j].timestamp_evento}

Alternates(q) ==
    \A i \in DOMAIN q : q[i].tipo_evento = IF i % 2 = 1 THEN ENTRATA ELSE USCITA

Times == 1..MaxTime
KnownOrFresh(used) == 1..Min(used + 1, MaxIds)

\* <<bambino_id, dispositivo_id>>: same site (s1, s2), child of another site,
\* inactive device, unknown child, unknown device
Targets == {<<"b1", "d1">>, <<"b2", "d2">>, <<"b2", "d1">>,
            <<"b1", "d3">>, <<"b0", "d1">>, <<"b1", "d0">>}
SyncTargets == {<<"b1", "d1">>, <<"b2", "d1">>}

\* PresenceEventIn.tipo_evento is optional
PayloadTipo == PresenceEventType \cup {"NONE"}

PresenceEventIn(t, cid, tipo, ts) ==
    [bambino_id |-> t[1], dispositivo_id |-> t[2], client_event_id |-> cid,
     tipo_evento |-> tipo, timestamp_evento |-> ts]

(***************************************************************************)
(* POST /presenze/check-in and /presenze/check-out: the payload's          *)
(* tipo_evento is not read; db.commit() follows a normal return.           *)
(***************************************************************************)
EndpointResults(rows, aud, attivo, tipo, payload) ==
    CreatePresenceEvent(rows, aud, attivo, tipo, payload.bambino_id, payload.dispositivo_id,
                        payload.client_event_id, payload.timestamp_evento)

PresenceEndpoint(op, tipo, payload) ==
    \E res \in EndpointResults(presenze, audit, bambino_attivo, tipo, payload) :
        /\ presenze' = res.presenze
        /\ audit' = res.audit
        /\ last' = EventResponse(op, res)
        /\ used_ids' = Max(used_ids, payload.client_event_id)
        /\ UNCHANGED <<bambino_attivo, txs, clock, session, clientVars>>

check_in(payload) == PresenceEndpoint("check_in", ENTRATA, payload)

check_out(payload) == PresenceEndpoint("check_out", USCITA, payload)

(***************************************************************************)
(* POST /sync: the events in list order, HTTPException counted as skipped, *)
(* one commit after the loop.                                              *)
(***************************************************************************)
SyncTipo(event) == IF event.tipo_evento = "NONE" THEN ENTRATA ELSE event.tipo_evento

SyncStart(rows, aud) ==
    [presenze |-> rows, audit |-> aud, accepted |-> 0, skipped |-> 0, outcomes |-> <<>>,
     before |-> <<>>]

\* Faulty variant: an event that is already stored is counted as skipped
SyncStep_ReplaySkipped(st, res) ==
    [presenze |-> res.presenze, audit |-> res.audit,
     accepted |-> st.accepted + (IF res.detail = "created" THEN 1 ELSE 0),
     skipped |-> st.skipped + (IF res.detail = "created" THEN 0 ELSE 1),
     outcomes |-> Append(st.outcomes, res.detail),
     before |-> Append(st.before, st.presenze)]

\* one iteration: `accepted += 1` after a normal return, `skipped += 1` in the handler
SyncStep(st, res) ==
    [presenze |-> res.presenze, audit |-> res.audit,
     accepted |-> st.accepted + (IF res.status = 200 THEN 1 ELSE 0),
     skipped |-> st.skipped + (IF res.status = 200 THEN 0 ELSE 1),
     outcomes |-> Append(st.outcomes, res.detail),
     before |-> Append(st.before, st.presenze)]

RECURSIVE SyncLoop(_, _, _, _)

\* Faulty variant: the first rejection ends the loop
SyncLoop_StopAtRejection(attivo, events, i, st) ==
    IF i > Len(events) THEN {st}
    ELSE UNION {IF res.status # 200 THEN {SyncStep(st, res)}
                ELSE SyncLoop(attivo, events, i + 1, SyncStep(st, res))
                  : res \in EndpointResults(st.presenze, st.audit, attivo,
                                            SyncTipo(events[i]), events[i])}

\* the possible runs of the loop from event i on; st is the run so far.  The event
\* and the run after it are bound once, as values, before the loop goes on.
SyncLoop(attivo, events, i, st) ==
    IF i > Len(events) THEN {st}
    ELSE UNION {SyncLoop(attivo, events, i + 1, next)
                  : next \in UNION {{SyncStep(st, res)
                                       : res \in EndpointResults(st.presenze, st.audit, attivo,
                                                                 SyncTipo(event), event)}
                                      : event \in {events[i]}}}

RECURSIVE SyncSpan(_, _, _, _, _)

\* the runs of the loop over events[lo..hi] from the runs sts: the runs over a long
\* span are the runs over its second half from every run over its first half
SyncSpan(attivo, events, lo, hi, sts) ==
    IF hi - lo < 50
    THEN UNION {SyncLoop(attivo, span, 1, st) : st \in sts, span \in {SubSeq(events, lo, hi)}}
    ELSE LET mid == (lo + hi) \div 2
         IN  SyncSpan(attivo, events, mid + 1, hi, SyncSpan(attivo, events, lo, mid, sts))

SyncRuns(rows, aud, attivo, events) ==
    SyncSpan(attivo, events, 1, Len(events), {SyncStart(rows, aud)})

\* SyncOut
SyncResponse(run) ==
    [op |-> "sync", status |-> 200, outcomes |-> run.outcomes,
     accepted |-> run.accepted, skipped |-> run.skipped]

MaxCid(events) ==
    IF events = <<>> THEN 0
    ELSE CHOOSE m \in {events[i].client_event_id : i \in 1..Len(events)} :
            \A i \in 1..Len(events) : events[i].client_event_id <= m

sync(events) ==
    \E run \in SyncRuns(presenze, audit, bambino_attivo, events) :
        /\ presenze' = run.presenze
        /\ audit' = run.audit
        /\ last' = SyncResponse(run)
        /\ used_ids' = Max(used_ids, MaxCid(events))
        /\ UNCHANGED <<bambino_attivo, txs, clock, session, clientVars>>

(***************************************************************************)
(* DELETE /admin/bambini/{id}: deactivates the child.                      *)
(***************************************************************************)
delete_bambino(b) ==
    /\ b \in Bambini
    /\ bambino_attivo' = [bambino_attivo EXCEPT ![b] = FALSE]
    /\ audit' = append_audit(audit, [azione |-> "admin:delete_bambino", entita |-> "bambini",
                                      entita_id |-> 0, bambino_id |-> b])
    /\ last' = [op |-> "delete_bambino", status |-> 200, outcomes |-> <<>>,
                accepted |-> 0, skipped |-> 0]
    /\ UNCHANGED <<presenze, used_ids, txs, clock, session, clientVars>>

(***************************************************************************)
(* The desktop client of device d1: its pending_events table, the          *)
(* dashboard row of child b1 with the Entra and Esce buttons, the 30 s     *)
(* sync timer.  A second device of the same site, d4, sends its own        *)
(* check-ins and check-outs.                                               *)
(***************************************************************************)
SyncLimit == 200

ClientChild == "b1"
ClientDevice == "d1"
OtherDevice == "d4"

\* a request is answered; never delivered (ConnectError); processed, the answer
\* lost (ReadTimeout)
Net == {"ok", "lost", "timeout"}

\* ... or refused by get_current_user (401), or failed in the server before the
\* handler ran (500)
NetAll == Net \cup {"unauthorized", "unavailable"}

\* the GET of a refresh is answered or not
RefreshNet == {"ok", "lost"}

\* the handler ran
Delivered(net) == net \in {"ok", "timeout"}

NetError(net) == IF net = "lost" THEN "ConnectError" ELSE "ReadTimeout"

\* the answer of a request whose handler did not run; status 0: no answer
NotHandled(net) ==
    [status |-> IF net = "unauthorized" THEN 401 ELSE IF net = "unavailable" THEN 500 ELSE 0,
     detail |-> net, row |-> NoRow, presenze |-> presenze, audit |-> audit]

\* the status the client reads: raise_for_status() raises HTTPStatusError for 4xx and 5xx
SeenStatus(net, res) == IF net = "timeout" THEN 0 ELSE res.status

\* str(exc) of the httpx.HTTPError
ErrorText(net, res) ==
    IF net \in {"lost", "timeout"} THEN NetError(net)
    ELSE IF res.status = 400 THEN "HTTP 400"
    ELSE IF res.status = 404 THEN "HTTP 404"
    ELSE IF res.status = 401 THEN "HTTP 401"
    ELSE "HTTP 500"

\* CURRENT_TIMESTAMP of the client: the number of events created so far
ClockNow(used) == used

\* Faulty variant: the event is not stored
enqueue_event_Dropped(q, event) == q

\* Faulty variant: INSERT OR REPLACE, a pending row of the same id gives way to a new one
enqueue_event_Replace(q, event) ==
    Append(SelectSeq(q, LAMBDA r : r.client_event_id # event.client_event_id),
           [client_event_id |-> event.client_event_id,
            bambino_id |-> event.bambino_id,
            dispositivo_id |-> event.dispositivo_id,
            tipo_evento |-> event.tipo_evento,
            timestamp_evento |-> event.timestamp_evento,
            error_message |-> "", last_try_at |-> 0])

\* INSERT OR IGNORE INTO pending_events
enqueue_event(q, event) ==
    IF \E i \in DOMAIN q : q[i].client_event_id = event.client_event_id THEN q
    ELSE Append(q, [client_event_id |-> event.client_event_id,
                    bambino_id |-> event.bambino_id,
                    dispositivo_id |-> event.dispositivo_id,
                    tipo_evento |-> event.tipo_evento,
                    timestamp_evento |-> event.timestamp_evento,
                    error_message |-> "", last_try_at |-> 0])

\* Faulty variant: the failure reason is not recorded
mark_event_error_Silent(q, cid, message, now) == q

\* UPDATE pending_events SET error_message = ?, last_try_at = CURRENT_TIMESTAMP
mark_event_error(q, cid, message, now) ==
    [i \in DOMAIN q |-> IF q[i].client_event_id = cid
                        THEN [q[i] EXCEPT !.error_message = message, !.last_try_at = now]
                        ELSE q[i]]

\* Faulty variant: ORDER BY id DESC, the newest rows first
list_pending_events_Newest(q, limit) ==
    [i \in 1..Min(Len(q), limit) |-> q[Len(q) + 1 - i]]

\* ORDER BY id ASC LIMIT ?
list_pending_events(q, limit) == SubSeq(q, 1, Min(Len(q), limit))

\* Faulty variant: DELETE FROM pending_events without the WHERE clause
remove_events_All(q, ids) == <<>>

\* Faulty variant: nothing is deleted
remove_events_Noop(q, ids) == q

remove_events(q, ids) == SelectSeq(q, LAMBDA r : r.client_event_id \notin ids)

PendingIds(q) == {q[i].client_event_id : i \in DOMAIN q}

\* Faulty variant: the flush stamps the event with the time of the last attempt
PendingPayload_Restamped(row) ==
    PresenceEventIn(<<row.bambino_id, row.dispositivo_id>>, row.client_event_id,
                    row.tipo_evento, row.last_try_at)

\* the payload of a pending row
PendingPayload(row) ==
    PresenceEventIn(<<row.bambino_id, row.dispositivo_id>>, row.client_event_id,
                    row.tipo_evento, row.timestamp_evento)

\* GET /catalog/presenze-stato, the row of child b: dentro iff the latest event is ENTRATA
PresenceState(rows, attivo, d, b) ==
    LET sede == DispositivoLookup(d)
    IN  IF sede = NoSede \/ ~BambinoLookup(attivo, b, sede) THEN {"none"}
        ELSE {IF latest.tipo_evento = ENTRATA THEN "dentro" ELSE "fuori" :
                latest \in LatestRows(rows, b, sede)}

\* _on_search_requested: the rows of the answer, no rows after an HTTPError
SearchResults(rows, attivo, net) ==
    IF net = "ok" THEN PresenceState(rows, attivo, ClientDevice, ClientChild) ELSE {"none"}

on_search_requested(net) ==
    /\ shown' \in SearchResults(presenze, bambino_attivo, net)
    /\ UNCHANGED <<serverVars, used_ids, last, txs, clock, session, pending, created, overtaken, flushed, info,
                   store_log>>

\* Entra is enabled when the row says not dentro, Esce when it says dentro
ButtonEnabled(tipo) == shown = (IF tipo = ENTRATA THEN "fuori" ELSE "dentro")

\* the event of the next click
NextPayload(tipo) ==
    PresenceEventIn(<<ClientChild, ClientDevice>>, used_ids + 1, tipo, used_ids + 1)

\* Faulty variant: the event is queued whatever the answer
QueueAfterSubmit_Always(q, payload, seen, message, now) ==
    mark_event_error(enqueue_event(q, payload), payload.client_event_id, message, now)

\* the pending_events table after the try block of _submit_presence_event
QueueAfterSubmit(q, payload, seen, message, now) ==
    IF seen = 200 THEN q
    ELSE mark_event_error(enqueue_event(q, payload), payload.client_event_id, message, now)

\* the server's answers to one presence request under a network outcome
PresenceAnswers(tipo, payload, net) ==
    IF Delivered(net) THEN EndpointResults(presenze, audit, bambino_attivo, tipo, payload)
    ELSE {NotHandled(net)}

\* what _submit_presence_event leaves behind for a click, a network outcome of the
\* POST and one of the refresh that follows a success
SubmitOutcomes(tipo, op, net, net2) ==
    LET payload == NextPayload(tipo)
    IN  UNION {
          {[presenze |-> res.presenze, audit |-> res.audit,
            last |-> IF Delivered(net) THEN EventResponse(op, res) ELSE last,
            pending |-> QueueAfterSubmit(pending, payload, SeenStatus(net, res),
                                         ErrorText(net, res), ClockNow(used_ids + 1)),
            shown |-> sh, seen |-> SeenStatus(net, res),
            info |-> IF SeenStatus(net, res) = 200 THEN "registrata" ELSE "salvato offline",
            overtaken |-> IF SeenStatus(net, res) = 200
                          THEN overtaken \cup {<<id, payload.client_event_id>> :
                                                  id \in PendingIds(pending)}
                          ELSE overtaken]
             : sh \in IF SeenStatus(net, res) = 200
                      THEN SearchResults(res.presenze, bambino_attivo, net2)
                      ELSE {shown}}
          : res \in PresenceAnswers(tipo, payload, net)}

\* _submit_presence_event after a click: a new uuid4, the time of the click
submit_presence_event(tipo, op, net, net2) ==
    /\ used_ids < MaxEvents
    /\ ButtonEnabled(tipo)
    /\ \E out \in SubmitOutcomes(tipo, op, net, net2) :
          /\ presenze' = out.presenze
          /\ audit' = out.audit
          /\ last' = out.last
          /\ pending' = out.pending
          /\ shown' = out.shown
          /\ info' = out.info
          /\ overtaken' = out.overtaken
    /\ used_ids' = used_ids + 1
    /\ created' = Append(created, NextPayload(tipo))
    /\ UNCHANGED <<bambino_attivo, txs, clock, session, flushed, store_log>>

\* the events of the POST /sync
SyncBatch(q) == list_pending_events(q, SyncLimit)

SyncPayload(batch) == [i \in DOMAIN batch |-> PendingPayload(batch[i])]

\* Faulty variant: the events /sync skipped stay in the queue
ids_to_remove_AcceptedOnly(batch, accepted, skipped) ==
    {batch[i].client_event_id : i \in 1..Min(Len(batch), accepted)}

\* [row["client_event_id"] for row in pending][: accepted + skipped]
ids_to_remove(batch, accepted, skipped) ==
    {batch[i].client_event_id : i \in 1..Min(Len(batch), accepted + skipped)}

\* Faulty variant: only the first event of the batch is marked
MarkBatch_FirstOnly(q, batch, i, message, now) ==
    IF batch = <<>> THEN q ELSE mark_event_error(q, batch[1].client_event_id, message, now)

\* for row in pending: mark_event_error(row["client_event_id"], str(exc)), from
\* batch[i] on: every UPDATE of the loop sets the same text and time, so a row of the
\* table is what its own UPDATE makes of it
MarkBatch(q, batch, i, message, now) ==
    [k \in DOMAIN q |->
        IF \E j \in i..Len(batch) : batch[j].client_event_id = q[k].client_event_id
        THEN mark_event_error(<<q[k]>>, q[k].client_event_id, message, now)[1]
        ELSE q[k]]

\* Faulty variant: the batch is removed although the answer was lost
QueueAfterSync_RemoveOnTimeout(q, batch, seen, accepted, skipped, message, now) ==
    IF seen \in {0, 200} THEN remove_events(q, ids_to_remove(batch, accepted, skipped))
    ELSE MarkBatch(q, batch, 1, message, now)

\* the pending_events table after the try block of _sync_pending; ids_to_remove is
\* computed once and handed to remove_events
QueueAfterSync(q, batch, seen, accepted, skipped, message, now) ==
    IF seen = 200
    THEN CHOOSE rest \in {remove_events(q, ids)
                            : ids \in {ids_to_remove(batch, accepted, skipped)}} : TRUE
    ELSE MarkBatch(q, batch, 1, message, now)

\* the server's runs of one /sync request under a network outcome
SyncAnswers(events, net) ==
    IF Delivered(net) THEN SyncRuns(presenze, audit, bambino_attivo, events)
    ELSE {[SyncStart(presenze, audit) EXCEPT !.outcomes = <<net>>]}

\* the status of a /sync answer: 200 from the handler
SyncStatus(net) ==
    IF Delivered(net) THEN 200 ELSE NotHandled(net).status

\* what _sync_pending leaves behind for a network outcome of the POST and one of
\* the refresh that follows a success
SyncPendingOutcomes(net, net2) ==
    LET seen == IF net = "timeout" THEN 0 ELSE SyncStatus(net)
    IN  UNION { UNION {
          {[presenze |-> run.presenze, audit |-> run.audit,
            last |-> IF Delivered(net) THEN SyncResponse(run) ELSE last,
            pending |-> QueueAfterSync(pending, batch, seen, run.accepted, run.skipped,
                                       ErrorText(net, [status |-> SyncStatus(net)]),
                                       ClockNow(used_ids)),
            shown |-> sh,
            flushed |-> IF seen = 200 THEN flushed \cup PendingIds(batch) ELSE flushed,
            seen |-> seen, accepted |-> run.accepted, skipped |-> run.skipped,
            outcomes |-> run.outcomes]
             : sh \in IF seen = 200 THEN SearchResults(run.presenze, bambino_attivo, net2)
                      ELSE {shown}}
          : run \in SyncAnswers(SyncPayload(batch), net)}
          : batch \in {SyncBatch(pending)}}

\* _sync_pending: the timer's tick, or the call after login
sync_pending(net, net2) ==
    /\ pending # <<>>
    /\ \E out \in SyncPendingOutcomes(net, net2) :
          /\ presenze' = out.presenze
          /\ audit' = out.audit
          /\ last' = out.last
          /\ pending' = out.pending
          /\ shown' = out.shown
          /\ flushed' = out.flushed
    /\ UNCHANGED <<bambino_attivo, used_ids, txs, clock, session, created, overtaken, info, store_log>>

\* the desktop client at work: the dashboard is shown, the token is saved, sync_timer
\* runs; left_pending: the ids that were pending at a logout so far
SessionOpen(left) ==
    [view |-> "dashboard", access_token |-> TRUE, sync_timer |-> TRUE, left_pending |-> left]

LoggedIn == SessionOpen({})

\* the sessions of SpecTx
Txs == {"t1", "t2"}

TxIndex(t) == IF t = "t1" THEN 1 ELSE 2

IdleTx ==
    [op |-> "none", events |-> <<>>, i |-> 0, pc |-> "idle", sede |-> NoSede,
     reads |-> <<>>, writes |-> <<>>, waudit |-> {}, accepted |-> 0, skipped |-> 0,
     outcomes |-> <<>>, status |-> 0]

\* SpecStore: the ids a caller of LocalStore may name
StoreIds == {1, 2, 3}

\* no call yet: sqlite_sequence is 0 and no row has an id
NoStoreCall ==
    [op |-> "none", cid |-> 0, limit |-> 0, listed |-> <<>>, calls |-> 0, seq |-> 0,
     rowid |-> [c \in StoreIds |-> 0], tipo |-> "NONE"]

(***************************************************************************)
(* Spec: the server, one request at a time, any caller; /sync carries at   *)
(* most one event.  SpecSync: /sync batches of up to two events.           *)
(***************************************************************************)
Init ==
    /\ presenze = <<>>
    /\ audit = {}
    /\ bambino_attivo = [b \in Bambini |-> TRUE]
    /\ used_ids = 0
    /\ last = NoResponse
    /\ txs = [t \in Txs |-> IdleTx]
    /\ pending = <<>>
    /\ shown = "none"
    /\ created = <<>>
    /\ overtaken = {}
    /\ flushed = {}
    /\ info = "none"
    /\ store_log = NoStoreCall
    /\ clock = 0
    /\ session = LoggedIn

SyncEvents(targets, ids, tipi) ==
    {PresenceEventIn(t, cid, tipo, ts) :
        t \in targets, cid \in ids, tipo \in tipi, ts \in Times}

\* a batch of one event, or none
SingleBatches(targets, used) ==
    {<<>>} \cup {<<e>> : e \in SyncEvents(targets, KnownOrFresh(used), PayloadTipo)}

\* a batch of two events, in the order of their timestamps, the second one
\* well addressed
PairBatches(used) ==
    UNION {{<<e1, e2>> :
              e2 \in {e \in SyncEvents({<<"b1", "d1">>},
                                       KnownOrFresh(Max(used, e1.client_event_id)),
                                       PresenceEventType)
                        : e.timestamp_evento >= e1.timestamp_evento}}
           : e1 \in SyncEvents(SyncTargets, KnownOrFresh(used), PresenceEventType)}

CheckInRequest ==
    \E t \in Targets, cid \in KnownOrFresh(used_ids), ts \in Times :
        check_in(PresenceEventIn(t, cid, ENTRATA, ts))

CheckOutRequest ==
    \E t \in Targets, cid \in KnownOrFresh(used_ids), ts \in Times :
        check_out(PresenceEventIn(t, cid, USCITA, ts))

SyncSingleRequest == \E events \in SingleBatches({<<"b1", "d1">>}, used_ids) : sync(events)

SyncBatchRequest ==
    \E events \in SingleBatches(SyncTargets, used_ids) \cup PairBatches(used_ids) : sync(events)

\* the admin deletes a child that is still active
DeleteBambinoRequest == \E b \in {c \in Bambini : bambino_attivo[c]} : delete_bambino(b)

Next ==
    \/ CheckInRequest
    \/ CheckOutRequest
    \/ SyncSingleRequest
    \/ DeleteBambinoRequest

Spec == Init /\ [][Next]_vars

NextSync ==
    \/ SyncBatchRequest
    \/ \E b \in {"b1"} : bambino_attivo[b] /\ delete_bambino(b)

SpecSync == Init /\ [][NextSync]_vars

(***************************************************************************)
(* SpecClient: the desktop client, the network and the server, with the    *)
(* other device of the site.                                               *)
(***************************************************************************)
OtherPayload(tipo) ==
    PresenceEventIn(<<ClientChild, OtherDevice>>, used_ids + 1, tipo, used_ids + 1)

ClientCheckIn == \E net \in Net, net2 \in RefreshNet : submit_presence_event(ENTRATA, "check_in", net, net2)

ClientCheckOut == \E net \in Net, net2 \in RefreshNet : submit_presence_event(USCITA, "check_out", net, net2)

ClientSyncPending == \E net \in Net, net2 \in RefreshNet : sync_pending(net, net2)

ClientSearch == \E net \in RefreshNet : on_search_requested(net)

OtherCheckIn == used_ids < MaxEvents /\ check_in(OtherPayload(ENTRATA))

OtherCheckOut == used_ids < MaxEvents /\ check_out(OtherPayload(USCITA))

NextClient ==
    \/ ClientCheckIn
    \/ ClientCheckOut
    \/ ClientSyncPending
    \/ ClientSearch
    \/ OtherCheckIn
    \/ OtherCheckOut

SpecClient == Init /\ [][NextClient]_vars

(***************************************************************************)
(* SpecKiosk: the desktop client alone with the server, under every        *)
(* failure of a request: no connection, a lost answer, a refused token, a  *)
(* server error; the admin may deactivate the child.                       *)
(***************************************************************************)
KioskCheckIn ==
    /\ used_ids < MaxClicks
    /\ \E net \in NetAll, net2 \in RefreshNet : submit_presence_event(ENTRATA, "check_in", net, net2)

KioskCheckOut ==
    /\ used_ids < MaxClicks
    /\ \E net \in NetAll, net2 \in RefreshNet : submit_presence_event(USCITA, "check_out", net, net2)

KioskSyncPending == \E net \in NetAll, net2 \in RefreshNet : sync_pending(net, net2)

KioskSearch == \E net \in RefreshNet : on_search_requested(net)

KioskDeleteBambino == bambino_attivo[ClientChild] /\ delete_bambino(ClientChild)

NextKiosk ==
    \/ KioskCheckIn
    \/ KioskCheckOut
    \/ KioskSyncPending
    \/ KioskSearch
    \/ KioskDeleteBambino

SpecKiosk == Init /\ [][NextKiosk]_vars

(***************************************************************************)
(* SpecFlush: the flush timer over a long queue.  The kiosk has been       *)
(* offline since the display last showed the child outside: every click on *)
(* Entra met no connection, so the button stayed enabled and each click    *)
(* queued one more ENTRATA.  From there sync_timer ticks every 30 s and    *)
(* the operator may refresh the list; the POST /sync meets any answer.     *)
(***************************************************************************)
\* the lengths of the queue when the timer takes over
QueueLengths == {1, SyncLimit, SyncLimit + 1, MaxBatches * SyncLimit + 1}

\* the event of the k-th click on Entra
OfflineEvent(k) == PresenceEventIn(<<ClientChild, ClientDevice>>, k, ENTRATA, k)

\* pending_events after n clicks that met no connection: the k-th click has added
\* the row of its event, the ids being new
OfflineQueue(n) ==
    [k \in 1..n |->
        QueueAfterSubmit(<<>>, OfflineEvent(k), 0, NetError("lost"), ClockNow(k))[1]]

InitFlush ==
    \E n \in QueueLengths :
        /\ presenze = <<>>
        /\ audit = {}
        /\ bambino_attivo = [b \in Bambini |-> TRUE]
        /\ used_ids = n
        /\ last = NoResponse
        /\ txs = [t \in Txs |-> IdleTx]
        /\ pending = OfflineQueue(n)
        /\ shown = "fuori"
        /\ created = [k \in 1..n |-> OfflineEvent(k)]
        /\ overtaken = {}
        /\ flushed = {}
        /\ info = "salvato offline"
        /\ store_log = NoStoreCall
        /\ clock = 0
        /\ session = LoggedIn

\* a tick of sync_timer whose POST /sync is answered
FlushAnswered == \E net2 \in RefreshNet : sync_pending("ok", net2)

\* a tick of sync_timer whose POST /sync fails
FlushFailed == \E net \in NetAll \ {"ok"}, net2 \in RefreshNet : sync_pending(net, net2)

FlushSearch == \E net \in RefreshNet : on_search_requested(net)

NextFlush ==
    \/ FlushAnswered
    \/ FlushFailed
    \/ FlushSearch

SpecFlush == InitFlush /\ [][NextFlush]_vars /\ WF_vars(FlushAnswered)

(***************************************************************************)
(* SpecSession: the desktop client through starts, logins, logouts and     *)
(* quits.  The settings and pending_events tables are in the SQLite file   *)
(* and outlive the process; sync_timer lives in the process.  While the    *)
(* timer runs it ticks every 30 s, and the POST /sync of a tick is         *)
(* answered in the end: weak fairness on the answered tick.  The setup     *)
(* view is left out: api_base_url has a default and cannot be saved empty. *)
(***************************************************************************)
MaxSessionClicks == 2

\* the requests of the client are answered or meet no connection
SessionNet == {"ok", "lost"}

\* the login view: no token kept, sync_timer stopped
SessionLogin(left) ==
    [view |-> "login", access_token |-> FALSE, sync_timer |-> FALSE, left_pending |-> left]

\* the client is not running
SessionClosed(token, left) ==
    [view |-> "closed", access_token |-> token, sync_timer |-> FALSE, left_pending |-> left]

\* a fresh installation that has not been started
InitSession ==
    /\ presenze = <<>>
    /\ audit = {}
    /\ bambino_attivo = [b \in Bambini |-> TRUE]
    /\ used_ids = 0
    /\ last = NoResponse
    /\ txs = [t \in Txs |-> IdleTx]
    /\ pending = <<>>
    /\ shown = "none"
    /\ created = <<>>
    /\ overtaken = {}
    /\ flushed = {}
    /\ info = "none"
    /\ store_log = NoStoreCall
    /\ clock = 0
    /\ session = SessionClosed(FALSE, {})

\* _post_login_refresh: _on_search_requested("") and then _sync_pending
post_login_refresh(net0, net, net2) ==
    IF pending = <<>>
    THEN /\ shown' \in SearchResults(presenze, bambino_attivo, net0)
         /\ presenze' = presenze
         /\ audit' = audit
         /\ last' = last
         /\ pending' = pending
         /\ flushed' = flushed
    ELSE \E out \in SyncPendingOutcomes(net, net2),
            sh \in SearchResults(presenze, bambino_attivo, net0) :
              /\ presenze' = out.presenze
              /\ audit' = out.audit
              /\ last' = out.last
              /\ pending' = out.pending
              /\ flushed' = out.flushed
              /\ shown' = IF out.seen = 200 THEN out.shown ELSE sh

\* Faulty variant: a start opens the dashboard without starting sync_timer
SessionAfterStart_NoTimer(s, valid) ==
    IF s.access_token /\ valid THEN [SessionOpen(s.left_pending) EXCEPT !.sync_timer = FALSE]
    ELSE SessionLogin(s.left_pending)

\* MainWindow.__init__: a saved token that token_still_valid() confirms opens the
\* dashboard and starts the timers; otherwise the token is cleared and the login view shown
SessionAfterStart(s, valid) ==
    IF s.access_token /\ valid THEN SessionOpen(s.left_pending)
    ELSE SessionLogin(s.left_pending)

SessionStart ==
    /\ session.view = "closed"
    /\ \E valid \in BOOLEAN, net0 \in SessionNet, net \in SessionNet, net2 \in SessionNet :
          /\ session' = SessionAfterStart(session, valid)
          /\ IF session.access_token /\ valid
             THEN post_login_refresh(net0, net, net2)
             ELSE /\ net0 = "ok" /\ net = "ok" /\ net2 = "ok"
                  /\ shown' = shown
                  /\ presenze' = presenze
                  /\ audit' = audit
                  /\ last' = last
                  /\ pending' = pending
                  /\ flushed' = flushed
    /\ UNCHANGED <<bambino_attivo, used_ids, txs, clock, created, overtaken, info, store_log>>

\* _on_login_requested when the challenge is completed: the token is saved, the
\* dashboard shown, the timers started, _post_login_refresh called
LoginSucceeded ==
    /\ session.view = "login"
    /\ session' = SessionOpen(session.left_pending)
    /\ \E net0 \in SessionNet, net \in SessionNet, net2 \in SessionNet :
          post_login_refresh(net0, net, net2)
    /\ UNCHANGED <<bambino_attivo, used_ids, txs, clock, created, overtaken, info, store_log>>

\* _on_login_requested when a field is empty, the key file is not valid or the
\* request fails: a status text and return
LoginFailed ==
    /\ session.view = "login"
    /\ UNCHANGED vars

\* _on_logout_requested: the timers stopped, the token cleared, the login view shown
LogoutRequested ==
    /\ session.view = "dashboard"
    /\ session' = SessionLogin(session.left_pending \cup PendingIds(pending))
    /\ UNCHANGED <<serverVars, used_ids, last, txs, clock, clientVars>>

\* the window is closed: app.exec() returns and the process ends with its timers
SessionQuit ==
    /\ session.view # "closed"
    /\ session' = SessionClosed(session.access_token, session.left_pending)
    /\ UNCHANGED <<serverVars, used_ids, last, txs, clock, clientVars>>

SessionCheckIn ==
    /\ session.view = "dashboard"
    /\ used_ids < MaxSessionClicks
    /\ \E net \in SessionNet, net2 \in SessionNet :
          submit_presence_event(ENTRATA, "check_in", net, net2)

SessionCheckOut ==
    /\ session.view = "dashboard"
    /\ used_ids < MaxSessionClicks
    /\ \E net \in SessionNet, net2 \in SessionNet :
          submit_presence_event(USCITA, "check_out", net, net2)

SessionSearch ==
    /\ session.view = "dashboard"
    /\ \E net \in SessionNet : on_search_requested(net)

\* a tick of sync_timer whose POST /sync is answered
SessionFlushAnswered ==
    /\ session.sync_timer
    /\ \E net2 \in SessionNet : sync_pending("ok", net2)

\* a tick of sync_timer whose POST /sync fails
SessionFlushFailed ==
    /\ session.sync_timer
    /\ \E net \in NetAll \ {"ok"}, net2 \in SessionNet : sync_pending(net, net2)

NextSession ==
    \/ SessionStart
    \/ LoginSucceeded
    \/ LoginFailed
    \/ LogoutRequested
    \/ SessionQuit
    \/ SessionCheckIn
    \/ SessionCheckOut
    \/ SessionSearch
    \/ SessionFlushAnswered
    \/ SessionFlushFailed

SpecSession == InitSession /\ [][NextSession]_vars /\ WF_vars(SessionFlushAnswered)

(***************************************************************************)
(* SpecStore: LocalStore as a library.  Any caller makes any call on the   *)
(* pending_events table: enqueue_event, mark_event_error, remove_events,   *)
(* list_pending_events, with any of a few ids, also ids it has used        *)
(* before.  pending is the table in the order of its AUTOINCREMENT id;     *)
(* store_log keeps the id of each row beside it.                           *)
(***************************************************************************)
\* the events a caller may enqueue; the same id may come with another tipo_evento
StoreEvents ==
    {PresenceEventIn(<<ClientChild, ClientDevice>>, cid, tipo, 1) :
        cid \in StoreIds, tipo \in PresenceEventType}

\* the limits a caller may pass
StoreLimits == 0..(Cardinality(StoreIds) + 1)

\* the log after a call that left the table q: a row that was added has the id after
\* the greatest ever given (AUTOINCREMENT), a row that is gone has none
StoreLogged(op, cid, tipo, limit, listed, q) ==
    LET isNew == op = "enqueue_event" /\ q # pending
    IN  [op |-> op, cid |-> cid, tipo |-> tipo, limit |-> limit, listed |-> listed,
         calls |-> store_log.calls + 1,
         seq |-> IF isNew THEN store_log.seq + 1 ELSE store_log.seq,
         rowid |-> [c \in StoreIds |->
                      IF c \notin PendingIds(q) THEN 0
                      ELSE IF isNew /\ c = cid THEN store_log.seq + 1
                      ELSE store_log.rowid[c]]]

StoreFrame == UNCHANGED <<serverVars, used_ids, last, txs, clock, session, shown, created, overtaken, flushed, info>>

StoreEnqueue ==
    \E event \in StoreEvents :
        /\ store_log.calls < MaxStoreCalls
        /\ pending' = enqueue_event(pending, event)
        /\ store_log' = StoreLogged("enqueue_event", event.client_event_id, event.tipo_evento,
                                    0, <<>>, enqueue_event(pending, event))
        /\ StoreFrame

StoreMarkError ==
    \E cid \in StoreIds :
        /\ store_log.calls < MaxStoreCalls
        /\ pending' = mark_event_error(pending, cid, NetError("lost"),
                                       ClockNow(store_log.calls + 1))
        /\ store_log' = StoreLogged("mark_event_error", cid, "NONE", 0, <<>>,
                                    mark_event_error(pending, cid, NetError("lost"),
                                                     ClockNow(store_log.calls + 1)))
        /\ StoreFrame

StoreRemove ==
    \E ids \in SUBSET StoreIds :
        /\ store_log.calls < MaxStoreCalls
        /\ pending' = remove_events(pending, ids)
        /\ store_log' = StoreLogged("remove_events", 0, "NONE", 0, <<>>,
                                    remove_events(pending, ids))
        /\ StoreFrame

StoreList ==
    \E limit \in StoreLimits :
        /\ store_log.calls < MaxStoreCalls
        /\ store_log' = StoreLogged("list_pending_events", 0, "NONE", limit,
                                    list_pending_events(pending, limit), pending)
        /\ UNCHANGED pending
        /\ StoreFrame

NextStore ==
    \/ StoreEnqueue
    \/ StoreMarkError
    \/ StoreRemove
    \/ StoreList

SpecStore == Init /\ [][NextStore]_vars

(***************************************************************************)
(* SpecProjector: the presence summary (main.py).  The events of one child *)
(* reach the table through check-in and check-out, stamped when clicked    *)
(* and delivered then or later; GET /catalog/presenze-stato and the        *)
(* history read the table at any time.  Here timestamp_evento and the      *)
(* clock count ticks, TicksPerSecond to the second, and a day is DayTicks  *)
(* long, so that int(delta.total_seconds()) truncates.                     *)
(***************************************************************************)
\* the clock runs through the first day and into the second
ProjectorTicks == 0..(DayTicks + 2)

\* the table holds up to two visits of the child: two events of each type
MaxStored == 2 * Cardinality(PresenceEventType)

\* None, where the code has an optional datetime
NoTime == -1

\* int(delta.total_seconds()) of a positive timedelta
total_seconds_int(delta) == delta \div TicksPerSecond

\* next(ev.timestamp_evento for ev in events if ev.tipo_evento == ENTRATA, None)
FirstIngresso(events) ==
    LET at == {i \in DOMAIN events : events[i].tipo_evento = ENTRATA}
    IN  IF at = {} THEN NoTime
        ELSE events[CHOOSE i \in at : \A j \in at : i <= j].timestamp_evento

\* next(ev.timestamp_evento for ev in reversed(events) if ev.tipo_evento == USCITA, None)
LastUscita(events) ==
    LET at == {i \in DOMAIN events : events[i].tipo_evento = USCITA}
    IN  IF at = {} THEN NoTime
        ELSE events[CHOOSE i \in at : \A j \in at : i >= j].timestamp_evento

\* the for loop, from event i on: total_seconds and open_entry so far
RECURSIVE SummaryLoop(_, _, _, _, _)
SummaryLoop(events, i, period_start, total_seconds, open_entry) ==
    IF i > Len(events)
    THEN [total_seconds |-> total_seconds, open_entry |-> open_entry]
    ELSE LET ev == events[i]
         IN  IF ev.tipo_evento = ENTRATA
             THEN SummaryLoop(events, i + 1, period_start, total_seconds,
                              Max(ev.timestamp_evento, period_start))
             ELSE IF ev.tipo_evento = USCITA /\ open_entry # NoTime
                  THEN SummaryLoop(events, i + 1, period_start,
                                   IF ev.timestamp_evento > open_entry
                                   THEN total_seconds
                                          + total_seconds_int(ev.timestamp_evento - open_entry)
                                   ELSE total_seconds,
                                   NoTime)
                  ELSE SummaryLoop(events, i + 1, period_start, total_seconds, open_entry)

\* Faulty variant: the open entry is measured up to now, past the end of the period
LiveSeconds_NoCutoff(open_entry, period_end, now) ==
    IF open_entry # NoTime /\ now > open_entry
    THEN total_seconds_int(now - open_entry)
    ELSE 0

\* if open_entry: cutoff = min(now, period_end); the seconds added when cutoff > open_entry
LiveSeconds(open_entry, period_end, now) ==
    LET cutoff == Min(now, period_end)
    IN  IF open_entry # NoTime /\ cutoff > open_entry
        THEN total_seconds_int(cutoff - open_entry)
        ELSE 0

\* (ingresso, uscita, total_seconds, open_entry); now is datetime.now(timezone.utc)
compute_presence_summary(events, period_start, period_end, now) ==
    IF events = <<>>
    THEN [ingresso |-> NoTime, uscita |-> NoTime, total_seconds |-> 0, open_entry |-> NoTime]
    ELSE LET loop == SummaryLoop(events, 1, period_start, 0, NoTime)
         IN  [ingresso |-> FirstIngresso(events),
              uscita |-> LastUscita(events),
              total_seconds |-> loop.total_seconds
                                  + LiveSeconds(loop.open_entry, period_end, now),
              open_entry |-> loop.open_entry]

\* order_by(timestamp_evento.asc()): rows of equal timestamp come in any order
RECURSIVE OrderByTimestamp(_)
OrderByTimestamp(evs) ==
    IF evs = {} THEN {<<>>}
    ELSE UNION {{<<r>> \o q : q \in OrderByTimestamp(evs \ {r})}
                  : r \in {e \in evs : \A o \in evs : e.timestamp_evento <= o.timestamp_evento}}

\* where(timestamp_evento >= period_start, timestamp_evento < period_end)
EventsInPeriod(rows, b, sede, period_start, period_end) ==
    OrderByTimestamp({r \in Range(rows) :
                            /\ r.bambino_id = b
                            /\ r.sede_id = sede
                            /\ r.timestamp_evento >= period_start
                            /\ r.timestamp_evento < period_end})

\* datetime.now(timezone.utc).replace(hour=0, minute=0, second=0, microsecond=0)
TodayStart(now) == now - (now % DayTicks)

\* Faulty variant: dentro is read from the events of today alone
list_bambini_presence_state_Today(rows, attivo, d, b, now) ==
    LET sede == DispositivoLookup(d)
        today_start == TodayStart(now)
        today_end == today_start + DayTicks
    IN  IF sede = NoSede \/ ~BambinoLookup(attivo, b, sede) THEN {}
        ELSE {LET summary == compute_presence_summary(events_today, today_start, today_end, now)
                  dentro == summary.open_entry # NoTime
              IN  [dentro |-> dentro,
                   entrata_aperta_da |-> IF dentro THEN latest.timestamp_evento ELSE NoTime,
                   ultimo_ingresso |-> summary.ingresso,
                   ultima_uscita |-> summary.uscita,
                   tempo_totale_secondi |-> summary.total_seconds,
                   open_entry |-> summary.open_entry,
                   events |-> events_today,
                   period_start |-> today_start,
                   period_end |-> today_end,
                   now |-> now]
                : latest \in LatestRows(rows, b, sede),
                  events_today \in EventsInPeriod(rows, b, sede, today_start, today_end)}

\* the BambinoPresenceStateOut of child b in the answer to device d, asked at `now`
list_bambini_presence_state(rows, attivo, d, b, now) ==
    LET sede == DispositivoLookup(d)
        today_start == TodayStart(now)
        today_end == today_start + DayTicks
    IN  IF sede = NoSede \/ ~BambinoLookup(attivo, b, sede) THEN {}
        ELSE {LET dentro == latest # NoRow /\ latest.tipo_evento = ENTRATA
                  summary == compute_presence_summary(events_today, today_start, today_end, now)
              IN  [dentro |-> dentro,
                   entrata_aperta_da |-> IF dentro THEN latest.timestamp_evento ELSE NoTime,
                   ultimo_ingresso |-> summary.ingresso,
                   ultima_uscita |-> summary.uscita,
                   tempo_totale_secondi |-> summary.total_seconds,
                   open_entry |-> summary.open_entry,
                   events |-> events_today,
                   period_start |-> today_start,
                   period_end |-> today_end,
                   now |-> now]
                : latest \in LatestRows(rows, b, sede),
                  events_today \in EventsInPeriod(rows, b, sede, today_start, today_end)}

\* the PresenceHistoryRowOut of child b for a period: no row without events
build_presence_history_rows(rows, b, period_start, period_end, now) ==
    {LET summary == compute_presence_summary(child_events, period_start, period_end, now)
     IN  [dentro |-> FALSE,
          entrata_aperta_da |-> NoTime,
          ultimo_ingresso |-> summary.ingresso,
          ultima_uscita |-> summary.uscita,
          tempo_totale_secondi |-> summary.total_seconds,
          open_entry |-> summary.open_entry,
          events |-> child_events,
          period_start |-> period_start,
          period_end |-> period_end,
          now |-> now]
       : child_events \in EventsInPeriod(rows, b, BambinoSede[b], period_start, period_end)
                            \ {<<>>}}

\* the answer of a read, with the events, the period and the clock it was computed from
SummaryResponse(op, row) ==
    [op |-> op, status |-> 200, outcomes |-> <<>>, accepted |-> 0, skipped |-> 0, row |-> row]

\* the periods a history is asked for: the first day, the second, both
HistoryPeriods == {<<0, DayTicks>>, <<DayTicks, 2 * DayTicks>>, <<0, 2 * DayTicks>>}

\* the clock advances
ProjectorTick ==
    /\ clock + 1 \in ProjectorTicks
    /\ clock' = clock + 1
    /\ UNCHANGED <<serverVars, used_ids, last, txs, clientVars, session>>

ProjectorCheckIn ==
    \E ts \in 0..clock :
        /\ Len(presenze) < MaxStored
        /\ check_in(PresenceEventIn(<<ClientChild, ClientDevice>>, Len(presenze) + 1, ENTRATA, ts))

ProjectorCheckOut ==
    \E ts \in 0..clock :
        /\ Len(presenze) < MaxStored
        /\ check_out(PresenceEventIn(<<ClientChild, ClientDevice>>, Len(presenze) + 1, USCITA, ts))

PresenceStateRequest ==
    \E row \in list_bambini_presence_state(presenze, bambino_attivo,
                                           ClientDevice, ClientChild, clock) :
        /\ last' = SummaryResponse("presenze_stato", row)
        /\ UNCHANGED <<serverVars, used_ids, txs, clock, session, clientVars>>

HistoryRequest ==
    \E period \in HistoryPeriods :
        \E row \in build_presence_history_rows(presenze, ClientChild,
                                               period[1], period[2], clock) :
            /\ last' = SummaryResponse("history", row)
            /\ UNCHANGED <<serverVars, used_ids, txs, clock, session, clientVars>>

NextProjector ==
    \/ ProjectorTick
    \/ ProjectorCheckIn
    \/ ProjectorCheckOut
    \/ PresenceStateRequest
    \/ HistoryRequest

SpecProjector == Init /\ [][NextProjector]_vars

(***************************************************************************)
(* The presence table of the desktop dashboard (dashboard_view.py).        *)
(***************************************************************************)
\* what set_presence_rows keeps of a row of the answer; entrata_aperta_da goes
\* through isoformat and fromisoformat, which give back the same instant
set_presence_rows(row) ==
    [dentro |-> row.dentro,
     start_dt |-> row.entrata_aperta_da,
     closed_seconds |-> Max(0, row.tempo_totale_secondi)]

\* the seconds _update_presence_timers writes in the total label at `now`
update_presence_timers(data, now) ==
    IF data.dentro /\ data.start_dt # NoTime
    THEN data.closed_seconds + Max(0, total_seconds_int(now - data.start_dt))
    ELSE data.closed_seconds

(***************************************************************************)
(* SpecSummary: compute_presence_summary alone, applied to every list of   *)
(* events in chronological order, to every period and at every clock       *)
(* reading, whether or not the events lie in the period.                   *)
(***************************************************************************)
MaxSummaryEvents == 3

\* the lists of events of the child, sorted by timestamp_evento ascending
SortedEvents ==
    {[k \in 1..Len(s) |-> NewPresenza(SubSeq(s, 1, k - 1), s[k][1], ClientChild, ClientDevice,
                                      BambinoSede[ClientChild], k, s[k][2])] :
        s \in {s \in UNION {[1..n -> PresenceEventType \X ProjectorTicks] :
                              n \in 0..MaxSummaryEvents} :
                 \A k \in 1..(Len(s) - 1) : s[k][2] <= s[k + 1][2]}}

\* compute_presence_summary(events, period_start, period_end) called at `now`; the
\* function keeps nothing between calls, so a behaviour makes one call
SummaryCall ==
    /\ last = NoResponse
    /\ \E events \in SortedEvents, period \in HistoryPeriods, now \in ProjectorTicks :
          \E summary \in {compute_presence_summary(events, period[1], period[2], now)} :
              last' = SummaryResponse("summary",
                          [dentro |-> FALSE,
                           entrata_aperta_da |-> NoTime,
                           ultimo_ingresso |-> summary.ingresso,
                           ultima_uscita |-> summary.uscita,
                           tempo_totale_secondi |-> summary.total_seconds,
                           open_entry |-> summary.open_entry,
                           events |-> events,
                           period_start |-> period[1],
                           period_end |-> period[2],
                           now |-> now])
    /\ UNCHANGED <<serverVars, used_ids, txs, clock, session, clientVars>>

NextSummary == SummaryCall

SpecSummary == Init /\ [][NextSummary]_vars

(***************************************************************************)
(* SpecTx: request transactions, statement by statement.  Every request    *)
(* runs create_presence_event in its own session; a statement sees the     *)
(* committed rows and the rows its own session has flushed; the unique     *)
(* index uq_client_event_id makes an INSERT wait for an in-flight INSERT   *)
(* of the same client_event_id and fail once that one commits.             *)
(***************************************************************************)
\* what a statement of session t reads: READ COMMITTED, PostgreSQL's default level
Visible(t) == presenze \o txs[t].writes

TxEvent(t) == txs[t].events[txs[t].i]

TxTipo(t) ==
    IF txs[t].op = "check_in" THEN ENTRATA
    ELSE IF txs[t].op = "check_out" THEN USCITA
    ELSE SyncTipo(TxEvent(t))

\* Faulty variant: the error ends the loop and what was flushed before it is committed
TxAborted_PartialCommit(rec, status, detail) ==
    [rec EXCEPT !.pc = "commit", !.outcomes = Append(@, detail)]

\* the session is closed without a commit: what it flushed is rolled back
TxAborted(rec, status, detail) ==
    [rec EXCEPT !.pc = "done", !.status = status, !.writes = <<>>, !.waudit = {},
                !.outcomes = Append(@, detail), !.i = 0, !.sede = NoSede]

\* the event at hand is done: the next one, or the commit
TxNextEvent(rec, detail) ==
    [rec EXCEPT !.outcomes = Append(@, detail),
                !.accepted = @ + (IF HttpStatus(detail) = 200 THEN 1 ELSE 0),
                !.skipped = @ + (IF HttpStatus(detail) = 200 THEN 0 ELSE 1),
                !.i = IF rec.i = Len(rec.events) THEN @ ELSE @ + 1,
                !.pc = IF rec.i = Len(rec.events) THEN "commit" ELSE "existing"]

\* raise HTTPException: /sync counts it and goes on, check-in and check-out answer it
TxRejected(rec, detail) ==
    IF rec.op = "sync" THEN TxNextEvent(rec, detail)
    ELSE TxAborted(rec, HttpStatus(detail), detail)

TxBegin(t, op, events) ==
    /\ txs[t].pc \in {"idle", "done"}
    /\ txs' = [txs EXCEPT ![t] = [IdleTx EXCEPT !.op = op, !.events = events, !.i = 1,
                                                !.pc = IF events = <<>> THEN "commit"
                                                       ELSE "existing"]]
    /\ used_ids' = Max(used_ids, MaxCid(events))
    /\ UNCHANGED <<serverVars, last, clientVars, clock, session>>

TxExisting(t) ==
    /\ txs[t].pc = "existing"
    /\ txs' = [txs EXCEPT ![t] =
                  IF ExistingRows(Visible(t), TxEvent(t).client_event_id) # {}
                  THEN TxNextEvent(@, "replay")
                  ELSE [@ EXCEPT !.pc = "dispositivo"]]
    /\ UNCHANGED <<serverVars, used_ids, last, clientVars, clock, session>>

TxDispositivo(t) ==
    /\ txs[t].pc = "dispositivo"
    /\ LET sede == DispositivoLookup(TxEvent(t).dispositivo_id)
       IN  txs' = [txs EXCEPT ![t] =
                      IF sede = NoSede THEN TxRejected(@, "dispositivo")
                      ELSE [@ EXCEPT !.pc = "bambino", !.sede = sede]]
    /\ UNCHANGED <<serverVars, used_ids, last, clientVars, clock, session>>

TxBambino(t) ==
    /\ txs[t].pc = "bambino"
    /\ txs' = [txs EXCEPT ![t] =
                  IF ~BambinoLookup(bambino_attivo, TxEvent(t).bambino_id, txs[t].sede)
                  THEN TxRejected(@, "bambino")
                  ELSE [@ EXCEPT !.pc = "latest"]]
    /\ UNCHANGED <<serverVars, used_ids, last, clientVars, clock, session>>

TxLatest(t) ==
    /\ txs[t].pc = "latest"
    /\ \E latest \in LatestRows(Visible(t), TxEvent(t).bambino_id, txs[t].sede) :
          LET rec == [txs[t] EXCEPT !.reads = Append(@, latest.id)]
          IN  txs' = [txs EXCEPT ![t] =
                         IF SequenceCheck(latest, TxTipo(t)) # "ok"
                         THEN TxRejected(rec, SequenceCheck(latest, TxTipo(t)))
                         ELSE [rec EXCEPT !.pc = "insert"]]
    /\ UNCHANGED <<serverVars, used_ids, last, clientVars, clock, session>>

\* the sessions whose flushed, uncommitted rows hold client_event_id cid
InFlight(cid, t) ==
    {u \in Txs \ {t} : txs[u].pc # "done" /\ ExistingRows(txs[u].writes, cid) # {}}

TxRow(t) ==
    [NewPresenza(Visible(t), TxTipo(t), TxEvent(t).bambino_id, TxEvent(t).dispositivo_id,
                 txs[t].sede, TxEvent(t).client_event_id, TxEvent(t).timestamp_evento)
        EXCEPT !.id = @ + 10 * TxIndex(t)]

\* db.add, db.flush, append_audit
TxInsert(t) ==
    /\ txs[t].pc = "insert"
    /\ InFlight(TxEvent(t).client_event_id, t) = {}
    /\ txs' = [txs EXCEPT ![t] =
                  IF ExistingRows(presenze, TxEvent(t).client_event_id) # {}
                  THEN TxAborted(@, 500, "IntegrityError")
                  ELSE TxNextEvent([@ EXCEPT !.writes = Append(@, TxRow(t)),
                                             !.waudit = append_audit(@, PresenceAudit(TxRow(t)))],
                                   "created")]
    /\ UNCHANGED <<serverVars, used_ids, last, clientVars, clock, session>>

\* two INSERTs wait for each other: PostgreSQL aborts one of them
TxDeadlock(t) ==
    /\ txs[t].pc = "insert"
    /\ \E u \in InFlight(TxEvent(t).client_event_id, t) :
          /\ txs[u].pc = "insert"
          /\ t \in InFlight(TxEvent(u).client_event_id, u)
    /\ txs' = [txs EXCEPT ![t] = TxAborted(@, 500, "DeadlockDetected")]
    /\ UNCHANGED <<serverVars, used_ids, last, clientVars, clock, session>>

\* db.commit() and the response
TxCommit(t) ==
    /\ txs[t].pc = "commit"
    /\ presenze' = presenze \o txs[t].writes
    /\ audit' = audit \cup txs[t].waudit
    /\ txs' = [txs EXCEPT ![t] = [@ EXCEPT !.pc = "done", !.status = 200, !.writes = <<>>,
                                            !.waudit = {}, !.i = 0, !.sede = NoSede]]
    /\ UNCHANGED <<bambino_attivo, used_ids, last, clientVars, clock, session>>

\* every event of a transaction request is one of the child b1 through the device
\* d1; two client_event_ids are enough for two sessions to share one or both; the
\* event named cid happened at time cid
TxIds == {1, 2}

TxPayload(cid, tipo) == PresenceEventIn(<<"b1", "d1">>, cid, tipo, Min(cid, MaxTime))

TxBatches ==
    {<<TxPayload(c, tipo)>> : c \in TxIds, tipo \in PresenceEventType}
    \cup {<<TxPayload(c[1], ENTRATA), TxPayload(c[2], USCITA)>> :
            c \in {d \in TxIds \X TxIds : d[1] # d[2]}}

TxRequest(t) ==
    \/ \E c \in TxIds : TxBegin(t, "check_in", <<TxPayload(c, ENTRATA)>>)
    \/ \E c \in TxIds : TxBegin(t, "check_out", <<TxPayload(c, USCITA)>>)
    \/ \E events \in TxBatches : TxBegin(t, "sync", events)

NextTx ==
    \E t \in Txs :
        \/ TxRequest(t)
        \/ TxExisting(t)
        \/ TxDispositivo(t)
        \/ TxBambino(t)
        \/ TxLatest(t)
        \/ TxInsert(t)
        \/ TxDeadlock(t)
        \/ TxCommit(t)

SpecTx == Init /\ [][NextTx]_vars

(***************************************************************************)
(* Properties of the server.                                               *)
(***************************************************************************)
StoredIds(rows) == {r.client_event_id : r \in Range(rows)}

\* ids no request has carried yet, and ids that were only ever rejected
NewIds == (1..(MaxIds + 1)) \ StoredIds(presenze)

KeyRows(rows, b, sede) == {r \in Range(rows) : r.bambino_id = b /\ r.sede_id = sede}

\* the request that stored row r, sent again
Resend(r) ==
    EndpointResults(presenze, audit, bambino_attivo, r.tipo_evento,
                    [bambino_id |-> r.bambino_id, dispositivo_id |-> r.dispositivo_id,
                     client_event_id |-> r.client_event_id, tipo_evento |-> r.tipo_evento,
                     timestamp_evento |-> r.timestamp_evento])

\* a new event of type tipo for target t
NewEvent(tipo, t, cid, ts) ==
    EndpointResults(presenze, audit, bambino_attivo, tipo, PresenceEventIn(t, cid, tipo, ts))

NothingWritten(res) == res.presenze = presenze /\ res.audit = audit

\* the device is an active one and the child an active child of the device's site
WellAddressed(t) ==
    /\ t[2] \in Dispositivi /\ DispositivoAttivo[t[2]]
    /\ t[1] \in Bambini /\ bambino_attivo[t[1]]
    /\ BambinoSede[t[1]] = DispositivoSede[t[2]]

\* C1: Idempotence.  The table holds at most one row per client_event_id, and
\* sending again the request of a stored client_event_id returns the stored row
\* and writes nothing.
Idempotence ==
    /\ \A i, j \in 1..Len(presenze) :
          i # j => presenze[i].client_event_id # presenze[j].client_event_id
    /\ \A r \in Range(presenze) : \A res \in Resend(r) : res.row = r /\ NothingWritten(res)

\* a replay has been answered and the table holds one row per id sent
Idempotence_Witness ==
    /\ last.outcomes = <<"replay">>
    /\ last.op = "check_in"
    /\ Len(presenze) = used_ids
    /\ Len(presenze) = 2

\* C2: Alternation invariant.  For every (bambino_id, sede_id) the stored events,
\* sorted by timestamp_evento, alternate and start with ENTRATA.
AlternationInvariant ==
    \A b \in Bambini, sede \in Sedi :
        \E q \in ChronologicalOrders(KeyRows(presenze, b, sede)) : Alternates(q)

\* the client's events in creation order, which is their timestamp order
ClientAlternates == Alternates(created)

\* C3: Out-of-order delivery loses nothing.  When the client's events for the child
\* alternate in time order and a later event b was accepted inline while an earlier
\* event a was pending, then once a /sync call carrying a has been answered both a
\* and b are stored.
OutOfOrderTolerated ==
    ClientAlternates =>
        \A p \in overtaken :
            p[1] \in flushed =>
                /\ ExistingRows(presenze, p[1]) # {}
                /\ ExistingRows(presenze, p[2]) # {}

\* C4: Concurrent ingestion for one child is serialized.  Of two check-ins in flight
\* together, with different client_event_ids, that both read the same latest event,
\* at most one is stored.
SerializedIngestion ==
    \A t \in Txs, u \in Txs :
        ( /\ t # u
          /\ txs[t].op = "check_in" /\ txs[u].op = "check_in"
          /\ txs[t].pc = "done" /\ txs[u].pc = "done"
          /\ txs[t].events[1].client_event_id # txs[u].events[1].client_event_id
          /\ txs[t].reads = txs[u].reads )
        => ~ ( /\ txs[t].outcomes = <<"created">> /\ txs[t].status = 200
               /\ txs[u].outcomes = <<"created">> /\ txs[u].status = 200
               /\ ExistingRows(presenze, txs[t].events[1].client_event_id) # {}
               /\ ExistingRows(presenze, txs[u].events[1].client_event_id) # {} )

\* C5: Concurrent replay is not an error.  A request whose client_event_id another
\* request stores first ends as a replay or as a validation failure: no request, and
\* no /sync batch, ends with an unhandled IntegrityError.
ConcurrentReplayResolved ==
    \A t \in Txs :
        txs[t].pc = "done" =>
            ~ ( /\ txs[t].status = 500
                /\ txs[t].outcomes[Len(txs[t].outcomes)] = "IntegrityError" )

\* C6: The idempotency check precedes every validation.  Sending again the request
\* of a stored client_event_id returns 200 and the stored row, also when the
\* lookups or the sequence checks would now reject that request.
ReplayBeforeValidation ==
    \A r \in Range(presenze) :
        \A res \in Resend(r) : res.status = 200 /\ res.row = r

\* a replay has been answered for an event whose child has been deactivated since
ReplayBeforeValidation_Witness ==
    /\ last.outcomes = <<"replay">>
    /\ last.status = 200
    /\ Len(presenze) = 1
    /\ ~bambino_attivo[presenze[1].bambino_id]

\* C7: A CHECK_IN with a new client_event_id, for an active child through an active
\* device of its site, while the most recent event of that child at that site is an
\* ENTRATA, is rejected with 400 and writes no presenze row and no audit record.
SecondCheckInRejected ==
    \A t \in Targets, cid \in NewIds, ts \in Times :
        (/\ WellAddressed(t)
         /\ \A l \in LatestRows(presenze, t[1], BambinoSede[t[1]]) :
               l # NoRow /\ l.tipo_evento = ENTRATA)
        => \A res \in NewEvent(ENTRATA, t, cid, ts) :
              res.status = 400 /\ NothingWritten(res)

\* a check-in has been rejected as consecutive
SecondCheckInRejected_Witness ==
    /\ last.op = "check_in"
    /\ last.status = 400
    /\ last.outcomes = <<"consecutivo">>
    /\ Len(presenze) = 1

\* C8: A CHECK_OUT with a new client_event_id, for an active child through an active
\* device of its site, is rejected with 400 and writes nothing when the child has no
\* open ENTRATA there (no prior event, or the prior event is not an ENTRATA); the
\* first event stored for a (bambino_id, sede_id) is never a USCITA.
CheckOutNeedsOpenCheckIn ==
    /\ \A t \in Targets, cid \in NewIds, ts \in Times :
          (/\ WellAddressed(t)
           /\ \A l \in LatestRows(presenze, t[1], BambinoSede[t[1]]) :
                 l = NoRow \/ l.tipo_evento # ENTRATA)
          => \A res \in NewEvent(USCITA, t, cid, ts) :
                res.status = 400 /\ NothingWritten(res)
    /\ \A i \in 1..Len(presenze) :
          presenze[i].tipo_evento = USCITA
          => \E j \in 1..(i - 1) : /\ presenze[j].bambino_id = presenze[i].bambino_id
                                   /\ presenze[j].sede_id = presenze[i].sede_id

\* a check-out has been rejected for want of an open ENTRATA, with nothing stored
CheckOutNeedsOpenCheckIn_Witness ==
    /\ last.op = "check_out"
    /\ last.status = 400
    /\ last.outcomes = <<"uscita_senza_entrata">>
    /\ presenze = <<>>

\* C9: Cross-site rejection.  An event with a new client_event_id whose device is
\* missing or inactive, or whose child is missing, inactive or of another site than
\* the device, is rejected with 404 and writes no presenze row and no audit record.
CrossSiteRejected ==
    \A t \in Targets, tipo \in PresenceEventType, cid \in NewIds, ts \in Times :
        ~WellAddressed(t)
        => \A res \in NewEvent(tipo, t, cid, ts) : res.status = 404 /\ NothingWritten(res)

\* a check-in has been answered 404 for the child while the child of the other
\* site is active and has an open ENTRATA at its own site
CrossSiteRejected_Witness ==
    /\ last.op = "check_in"
    /\ last.status = 404
    /\ last.outcomes = <<"bambino">>
    /\ bambino_attivo["b2"]
    /\ Len(presenze) = 1
    /\ presenze[1].bambino_id = "b2" /\ presenze[1].sede_id = "s2"

\* the events of a batch that create_presence_event accepts at their turn
ValidAtTurn(events, run) ==
    {i \in 1..Len(events) :
        \A res \in EndpointResults(run.before[i], {}, bambino_attivo,
                                   SyncTipo(events[i]), events[i]) : res.status = 200}

\* C10: Batch accounting.  For every batch /sync answers, accepted + skipped is the
\* number of events of the batch, and every event that is valid at its turn is
\* stored when the batch returns, whatever was rejected before it.
BatchAccounting ==
    \A events \in SingleBatches(SyncTargets, used_ids) \cup PairBatches(used_ids) :
        \A run \in SyncRuns(presenze, audit, bambino_attivo, events) :
            /\ run.accepted + run.skipped = Len(events)
            /\ \A i \in ValidAtTurn(events, run) :
                  events[i].client_event_id \in StoredIds(run.presenze)

\* a batch of two has been answered whose first event was rejected and whose
\* second event was stored
BatchAccounting_Witness ==
    /\ last.op = "sync"
    /\ last.outcomes = <<"bambino", "created">>
    /\ last.accepted = 1 /\ last.skipped = 1

\* the rows once event i of a run has been handled
RowsAfter(run, i) == IF i = Len(run.before) THEN run.presenze ELSE run.before[i + 1]

\* the outcomes of a run that were normal returns
Returned(run) == {i \in 1..Len(run.outcomes) : HttpStatus(run.outcomes[i]) = 200}

\* C11: Replays in a batch.  In every batch /sync answers, an event whose
\* client_event_id is stored at its turn, from an earlier request or from an earlier
\* event of the batch, is a replay: it adds no row, and accepted counts it, since
\* accepted is the number of normal returns and skipped the number of rejections.
ReplayCountsAsAccepted ==
    \A events \in SingleBatches(SyncTargets, used_ids) \cup PairBatches(used_ids) :
        \A run \in SyncRuns(presenze, audit, bambino_attivo, events) :
            /\ run.accepted = Cardinality(Returned(run))
            /\ run.skipped = Len(events) - Cardinality(Returned(run))
            /\ \A i \in 1..Len(events) :
                  events[i].client_event_id \in StoredIds(run.before[i]) =>
                      /\ run.outcomes[i] = "replay"
                      /\ i \in Returned(run)
                      /\ RowsAfter(run, i) = run.before[i]

\* a batch of two has been answered that carried the same new id twice: one row,
\* two accepted
ReplayCountsAsAccepted_Witness ==
    /\ last.op = "sync"
    /\ last.outcomes = <<"created", "replay">>
    /\ last.accepted = 2 /\ last.skipped = 0
    /\ Len(presenze) = 1

\* the batches of two with one event stored and the other rejected by a sequence check
MixedRuns(events) ==
    {run \in SyncRuns(presenze, audit, bambino_attivo, events) :
        /\ run.accepted >= 1
        /\ \E i \in 1..Len(events) :
              run.outcomes[i] \in {"consecutivo", "uscita_senza_entrata"}}

\* C12: No event of a batch is dropped.  After a batch with valid events and events
\* that violate alternation, every client_event_id of the batch is in the server's
\* tables.
BatchIdsKnown ==
    \A events \in PairBatches(used_ids) :
        \A run \in MixedRuns(events) :
            \A i \in 1..Len(events) : events[i].client_event_id \in StoredIds(run.presenze)

(***************************************************************************)
(* Properties of the desktop client.                                       *)
(***************************************************************************)
\* the buttons the dashboard lets the operator click
Clickable == {tipo \in PresenceEventType : ButtonEnabled(tipo)}

\* what a click may leave behind under the network outcomes nets
ClickOutcomes(nets) ==
    UNION {SubmitOutcomes(tipo, IF tipo = ENTRATA THEN "check_in" ELSE "check_out", net, net2) :
             tipo \in Clickable, net \in nets, net2 \in RefreshNet}

\* what a flush of the queue may leave behind
FlushOutcomes(nets) ==
    IF pending = <<>> THEN {}
    ELSE UNION {SyncPendingOutcomes(net, net2) : net \in nets, net2 \in RefreshNet}

Rejections == {"dispositivo", "bambino", "consecutivo", "uscita_senza_entrata"}

\* C13: Pending-event lifecycle.  A flush deletes a pending row only after an answer
\* it received, in which the server stored the row's client_event_id (now or before)
\* or rejected it; a click deletes no row.
PendingLifecycle ==
    /\ \A out \in FlushOutcomes(NetAll) :
          \A i \in DOMAIN pending :
              pending[i].client_event_id \notin PendingIds(out.pending) =>
                  /\ out.seen = 200
                  /\ i <= Len(out.outcomes)
                  /\ \/ /\ out.outcomes[i] \in {"created", "replay"}
                        /\ pending[i].client_event_id \in StoredIds(out.presenze)
                     \/ out.outcomes[i] \in Rejections
    /\ \A out \in ClickOutcomes(NetAll) : PendingIds(pending) \subseteq PendingIds(out.pending)

\* a flush has removed a stored event and a rejected one
PendingLifecycle_Witness ==
    /\ \E id \in flushed : id \in StoredIds(presenze)
    /\ \E id \in flushed : id \notin StoredIds(presenze)
    /\ flushed \cap PendingIds(pending) = {}

\* C14: Flush removal is all or nothing.  An answer with accepted + skipped equal to
\* the batch size removes exactly the batch; after a failure of the call no row is
\* removed and every row of the batch carries the error text and the time of the
\* attempt, the rows behind the batch being untouched.
FlushAllOrNothing ==
    \A out \in FlushOutcomes(NetAll) :
        LET n == Len(SyncBatch(pending))
        IN  /\ (out.seen = 200 /\ out.accepted + out.skipped = n) =>
                  out.pending = SubSeq(pending, n + 1, Len(pending))
            /\ out.seen # 200 =>
                  /\ Len(out.pending) = Len(pending)
                  /\ \A i \in DOMAIN pending :
                        /\ PendingPayload(out.pending[i]) = PendingPayload(pending[i])
                        /\ i <= n => /\ out.pending[i].error_message # ""
                                     /\ out.pending[i].last_try_at = ClockNow(used_ids)
                                     /\ out.pending[i].error_message = out.pending[1].error_message
                        /\ i > n => out.pending[i] = pending[i]

\* a failed flush has marked two pending rows, one of them queued earlier
FlushAllOrNothing_Witness ==
    /\ Len(pending) = 2
    /\ pending[1].timestamp_evento < pending[1].last_try_at
    /\ pending[1].last_try_at = pending[2].last_try_at
    /\ pending[1].error_message = "ReadTimeout"
    /\ pending[2].error_message = "ReadTimeout"
    /\ flushed = {}

\* the rows a flush carries that a network error has queued
QueuedOffline == {r \in Range(SyncBatch(pending)) : r.error_message \in {"ConnectError", "ReadTimeout"}}

PendingIndex(r) == CHOOSE i \in DOMAIN pending : pending[i] = r

SuccessLeavesQueue ==
    \A out \in ClickOutcomes(NetAll) : out.seen = 200 => out.pending = pending

\* a click was answered with success while a row was pending
SuccessLeavesQueue_Witness ==
    /\ info = "registrata"
    /\ pending # <<>>
    /\ last.op \in {"check_in", "check_out"} /\ last.status = 200
    /\ created[Len(created)].client_event_id \in StoredIds(presenze)

\* C17: A transient failure queues the event.  After a click whose POST meets no
\* connection, a timeout or a 5xx, the queue is the old one plus one row with the
\* event's payload, the failure text and the time of the attempt, and the operator is
\* told the event was saved offline.
TransientFailureQueued ==
    \A tipo \in Clickable, net \in {"lost", "timeout", "unavailable"}, net2 \in RefreshNet :
        \A out \in SubmitOutcomes(tipo, IF tipo = ENTRATA THEN "check_in" ELSE "check_out",
                                  net, net2) :
            /\ out.info = "salvato offline"
            /\ Len(out.pending) = Len(pending) + 1
            /\ SubSeq(out.pending, 1, Len(pending)) = pending
            /\ LET row == out.pending[Len(out.pending)]
               IN  /\ PendingPayload(row) = NextPayload(tipo)
                   /\ row.error_message =
                         (IF net = "unavailable" THEN "HTTP 500" ELSE NetError(net))
                   /\ row.last_try_at = ClockNow(used_ids + 1)

\* the last click met a server error and its event is the last row of the queue
TransientFailureQueued_Witness ==
    /\ info = "salvato offline"
    /\ pending # <<>>
    /\ PendingPayload(pending[Len(pending)]) = created[Len(created)]
    /\ pending[Len(pending)].error_message = "HTTP 500"

\* C18: An authentication failure is not queued.  After a click whose POST is refused
\* with 401 the queue is unchanged and the operator is not told the event was saved
\* offline.
AuthFailureNotQueued ==
    \A out \in ClickOutcomes({"unauthorized"}) :
        /\ out.pending = pending
        /\ out.info # "salvato offline"

\* C19: A rejected payload is not resubmitted.  An answered flush removes every event
\* /sync rejected; an id a flush has carried is in no pending row, and no later click
\* uses it.
RejectedNotRetried ==
    /\ flushed \cap PendingIds(pending) = {}
    /\ \A id \in flushed : id <= used_ids
    /\ \A out \in FlushOutcomes({"ok"}) :
          \A i \in DOMAIN SyncBatch(pending) :
              out.outcomes[i] \in Rejections =>
                  pending[i].client_event_id \notin PendingIds(out.pending)

\* a flush of two events was answered, the second one rejected, and the queue is empty
RejectedNotRetried_Witness ==
    /\ last.op = "sync" /\ last.accepted = 1 /\ last.skipped = 1
    /\ last.outcomes[2] \in Rejections
    /\ flushed = {1, 2}
    /\ pending = <<>>

(***************************************************************************)
(* Properties of the flush timer.                                          *)
(***************************************************************************)
\* the payloads of a queue, in order
Payloads(q) == [i \in DOMAIN q |-> PendingPayload(q[i])]

\* a failed flush removes no row and changes no payload
FailedFlushKeeps ==
    \A out \in FlushOutcomes(NetAll \ {"ok"}) :
        out.seen # 200 /\ Payloads(out.pending) = Payloads(pending)

\* every event the client created has left the queue through an answered flush
Drained ==
    /\ pending = <<>>
    /\ \A i \in DOMAIN created : created[i].client_event_id \in flushed

\* C20 as stated: transient failures never lose an event.  A failed flush keeps
\* every row, every flush carries every pending row, and with weak fairness on the
\* answered flush the queue empties, every event having been judged.
EventNeverLost_AsStated ==
    /\ [](FailedFlushKeeps
            /\ PendingIds(pending) \subseteq PendingIds(SyncPayload(SyncBatch(pending))))
    /\ (pending # <<>>) ~> Drained

\* C20: Transient failures never lose an event.  A failed flush keeps every row, every
\* flush carries the oldest rows of the queue up to the limit of 200, and with weak
\* fairness on the answered flush the queue empties, every event having been
\* judged, also from more than 200 pending rows.
EventNeverLost ==
    /\ [](FailedFlushKeeps
            /\ SyncPayload(SyncBatch(pending)) =
                  SubSeq(Payloads(pending), 1, Min(Len(pending), SyncLimit)))
    /\ (pending # <<>>) ~> Drained

\* a queue of more than two full batches has been emptied, its first event stored
EventNeverLost_Witness ==
    /\ pending = <<>>
    /\ Cardinality(flushed) > MaxBatches * SyncLimit
    /\ Len(created) = Cardinality(flushed)
    /\ StoredIds(presenze) = {1}
    /\ last.op = "sync" /\ last.skipped = 1

(***************************************************************************)
(* Properties of the flush schedule and of the local store.                *)
(***************************************************************************)
\* C21: A flush follows every click.  After a click on Entra or Esce, whatever its
\* outcome, every row that was pending before the click has been carried by a
\* flush: it has left the queue or bears the time of an attempt made after the click.
FlushAfterEveryClick ==
    \A out \in ClickOutcomes(NetAll) :
        \A i \in DOMAIN pending :
            \/ pending[i].client_event_id \notin PendingIds(out.pending)
            \/ out.pending[i].last_try_at = ClockNow(used_ids + 1)

\* C22: enqueue_event is idempotent.  Enqueueing an event whose client_event_id is
\* pending leaves the table as it is, whatever the rest of the event, and no two rows of
\* the table have the same client_event_id.
EnqueueIdempotent ==
    /\ \A event \in StoreEvents :
          event.client_event_id \in PendingIds(pending) =>
              enqueue_event(pending, event) = pending
    /\ \A i, j \in DOMAIN pending :
          pending[i].client_event_id = pending[j].client_event_id => i = j

\* the last call enqueued an id that was pending with another tipo_evento and an error
\* text; its row is not the last row and is as it was
EnqueueIdempotent_Witness ==
    /\ store_log.op = "enqueue_event"
    /\ Len(pending) = 2
    /\ pending[1].client_event_id = store_log.cid
    /\ pending[1].tipo_evento # store_log.tipo
    /\ pending[1].error_message = NetError("lost")
    /\ store_log.rowid[store_log.cid] < store_log.seq

\* C23: list_pending_events returns the oldest rows first.  After any calls, the
\* result for a limit is min(limit, count) rows of the table in the order of their
\* insertion (ascending AUTOINCREMENT id), no row left out being older than a row
\* returned; the batch of a flush is such a result.
ListOldestFirst ==
    /\ \A limit \in StoreLimits :
          LET res == list_pending_events(pending, limit)
          IN  /\ Len(res) = Min(limit, Len(pending))
              /\ \A i \in DOMAIN res : res[i] \in Range(pending)
              /\ \A i, j \in DOMAIN res :
                    i < j => store_log.rowid[res[i].client_event_id]
                               < store_log.rowid[res[j].client_event_id]
              /\ \A r \in Range(pending) :
                    r \notin Range(res) =>
                        \A i \in DOMAIN res : store_log.rowid[res[i].client_event_id]
                                                < store_log.rowid[r.client_event_id]
    /\ SyncBatch(pending) = list_pending_events(pending, SyncLimit)
    /\ \A i, j \in DOMAIN SyncPayload(SyncBatch(pending)) :
          i < j => store_log.rowid[SyncPayload(SyncBatch(pending))[i].client_event_id]
                     < store_log.rowid[SyncPayload(SyncBatch(pending))[j].client_event_id]

\* ids 1 and 2 were enqueued, id 1 was removed and enqueued again, and the last call
\* listed one row: that of id 2
ListOldestFirst_Witness ==
    /\ store_log.op = "list_pending_events"
    /\ store_log.limit = 1
    /\ Len(store_log.listed) = 1
    /\ store_log.listed[1].client_event_id = 2
    /\ Len(pending) = 2
    /\ pending[2].client_event_id = 1
    /\ store_log.seq = 3

(***************************************************************************)
(* Properties of the presence summary.                                     *)
(***************************************************************************)
IsSummary == last.op \in {"presenze_stato", "history"}

\* the events the summary was computed from are ENTRATA, USCITA, ..., USCITA
ClosedPairs(events) == events # <<>> /\ Alternates(events) /\ Len(events) % 2 = 0

\* the ticks between the ENTRATA and the USCITA of the k-th pair
PairTicks(events, k) == events[2 * k].timestamp_evento - events[2 * k - 1].timestamp_evento

RECURSIVE SumOver(_, _, _)
SumOver(F(_), events, k) == IF k = 0 THEN 0 ELSE F(PairTicks(events, k)) + SumOver(F, events, k - 1)

Ticks(delta) == delta
WholeSeconds(delta) == delta \div TicksPerSecond

\* C24: Closed-duration correctness.  When the events of the period are an
\* alternating sequence from a CHECK_IN to a CHECK_OUT, the total is the seconds of the
\* sum of (CHECK_OUT - CHECK_IN) over the pairs, and no entry is open.
ClosedDurationIsSecondsOfSum ==
    (IsSummary /\ ClosedPairs(last.row.events)) =>
        /\ last.row.tempo_totale_secondi
             = WholeSeconds(SumOver(Ticks, last.row.events, Len(last.row.events) \div 2))
        /\ last.row.open_entry = NoTime

\* the last event of the period is an ENTRATA
EndsOpen(events) == events # <<>> /\ events[Len(events)].tipo_evento = ENTRATA

\* min(now, periodEnd) - openEntry in whole seconds when positive, 0 otherwise
LiveDuration(row) ==
    LET cutoff == IF row.now < row.period_end THEN row.now ELSE row.period_end
    IN  IF cutoff - row.open_entry > 0 THEN WholeSeconds(cutoff - row.open_entry) ELSE 0

\* C25: Open interval.  When the last event of the period is a CHECK_IN, the summary
\* reports that entry as open, and the seconds it adds for it to the closed pairs are
\* min(now, periodEnd) - openEntry when that is positive and 0 otherwise.
OpenIntervalDuration ==
    (IsSummary /\ EndsOpen(last.row.events)) =>
        /\ last.row.open_entry = last.row.events[Len(last.row.events)].timestamp_evento
        /\ Alternates(last.row.events) =>
              last.row.tempo_totale_secondi
                = SumOver(WholeSeconds, last.row.events, Len(last.row.events) \div 2)
                    + LiveDuration(last.row)

\* an entry still open after the end of the period, counted up to the end of the period
OpenIntervalDuration_Witness ==
    /\ IsSummary
    /\ EndsOpen(last.row.events)
    /\ Alternates(last.row.events)
    /\ last.row.now > last.row.period_end
    /\ LiveDuration(last.row) > 0

\* C26: the seconds value of presence-state counts only the intervals already closed
\* by a CHECK_OUT; the elapsed time of a still-open interval is not in it.
ClosedSecondsExcludeLive ==
    (last.op = "presenze_stato" /\ Alternates(last.row.events)) =>
        last.row.tempo_totale_secondi
          = SumOver(WholeSeconds, last.row.events, Len(last.row.events) \div 2)

(***************************************************************************)
(* Properties of the events the client submits.                            *)
(***************************************************************************)
\* the event the click created, as the inline attempt sent it
CreatedAs(cid) == {created[k] : k \in {j \in DOMAIN created : created[j].client_event_id = cid}}

\* the row the server stored carries the fields of payload
StoredAs(r, payload) ==
    /\ r.bambino_id = payload.bambino_id
    /\ r.dispositivo_id = payload.dispositivo_id
    /\ r.tipo_evento = payload.tipo_evento
    /\ r.timestamp_evento = payload.timestamp_evento

\* C27: the client generates the client_event_id once per click, and every later
\* submission of the event (the row kept for it, each flush that carries it, and so the
\* row the server stores) has the client_event_id, child, device, type and time of the
\* inline attempt.
SubmissionsCarrySameEvent ==
    /\ Len(created) = used_ids
    /\ \A j, k \in DOMAIN created :
          created[j].client_event_id = created[k].client_event_id => j = k
    /\ \A i \in DOMAIN pending : CreatedAs(pending[i].client_event_id) = {PendingPayload(pending[i])}
    /\ \A out \in SyncPendingOutcomes("lost", "ok") :
          \A i \in DOMAIN out.pending :
              CreatedAs(out.pending[i].client_event_id) = {PendingPayload(out.pending[i])}
    /\ \A i \in DOMAIN SyncBatch(pending) :
          CreatedAs(SyncBatch(pending)[i].client_event_id) = {SyncPayload(SyncBatch(pending))[i]}
    /\ \A r \in Range(presenze) :
          \E payload \in CreatedAs(r.client_event_id) : StoredAs(r, payload)

\* an event refused inline, retried by a flush that failed after a later click, and
\* stored by a later flush
SubmissionsCarrySameEvent_Witness ==
    \E r \in Range(presenze) :
        /\ r.client_event_id \in flushed
        /\ r.client_event_id < used_ids
        /\ pending # <<>>

(***************************************************************************)
(* Properties of the order of validation.                                  *)
(***************************************************************************)
\* the orders in which n rows can have been inserted
InsertionOrders(n) == {p \in [1..n -> 1..n] : \A i, j \in 1..n : p[i] = p[j] => i = j}

\* the table holding the events of rows, inserted in the order p
Reinserted(rows, p) == [i \in DOMAIN rows |-> [rows[p[i]] EXCEPT !.id = i]]

\* what can become of an event on a table: the status and the reason; MaxIds + 1 is an
\* id no request has carried
Verdicts(rows, tipo, payload) ==
    {<<res.status, res.detail>> : res \in EndpointResults(rows, audit, bambino_attivo, tipo, payload)}

OfflinePairs ==
    {<<PresenceEventIn(<<"b1", "d1">>, MaxIds + 1, ENTRATA, t1),
       PresenceEventIn(<<"b1", "d1">>, MaxIds + 2, USCITA, t2)>>
       : t1 \in Times, t2 \in Times}

\* every run of the loop stores both events, the second one validated against a table
\* that holds the first
AcceptedInFull(events) ==
    \A run \in SyncRuns(presenze, audit, bambino_attivo, events) :
        /\ run.accepted = 2
        /\ run.skipped = 0
        /\ run.outcomes = <<"created", "created">>
        /\ events[1].client_event_id \in StoredIds(run.before[2])

\* the CHECK_IN on its own is accepted
CheckInAccepted(events) ==
    \A run \in SyncRuns(presenze, audit, bambino_attivo, <<events[1]>>) : run.accepted = 1

\* C29: the events of a /sync batch are validated one after the other, each
\* against a table that holds the events accepted before it in the batch, so a batch of a
\* child's CHECK_IN followed by the child's CHECK_OUT is accepted in full whenever its
\* CHECK_IN is.
OfflinePairAccepted ==
    \A events \in OfflinePairs : CheckInAccepted(events) => AcceptedInFull(events)

(***************************************************************************)
(* The frame of a flush.                                                   *)
(***************************************************************************)
\* pending_events when a click has queued one more event after the flush listed its batch
EnqueuedMeanwhile ==
    QueueAfterSubmit(pending, NextPayload(ENTRATA), 0, NetError("lost"), ClockNow(used_ids + 1))

\* the table the flush leaves when it lists its batch from pending and ends on q
FlushLeaves(q, out) ==
    QueueAfterSync(q, SyncBatch(pending), out.seen, out.accepted, out.skipped,
                   NetError("lost"), ClockNow(used_ids))

\* a flush takes from the queue only ids of the batch it sent, leaves the rows beyond
\* the limit as they were, and leaves a row that was queued after the batch was listed
RemovalFrame ==
    \A out \in FlushOutcomes(NetAll) :
        /\ PendingIds(pending) \ PendingIds(out.pending) \subseteq PendingIds(SyncBatch(pending))
        /\ \A i \in DOMAIN pending : i > SyncLimit => pending[i] \in Range(out.pending)
        /\ \A after \in {FlushLeaves(EnqueuedMeanwhile, out)} :
              /\ EnqueuedMeanwhile[Len(EnqueuedMeanwhile)] \in Range(after)
              /\ \A i \in DOMAIN pending : i > SyncLimit => pending[i] \in Range(after)

\* a step from an empty queue: no request reaches the server and no table changes
EmptyFlushFrame ==
    pending = <<>> =>
        /\ pending' = pending
        /\ flushed' = flushed
        /\ last' = last
        /\ presenze' = presenze
        /\ audit' = audit

\* C30: a flush removes only client_event_ids of the batch it submitted: the rows beyond
\* the limit of 200 and a row enqueued after the batch was listed are still pending after
\* it, and a flush of an empty queue sends nothing and changes nothing.
FlushFrame == [](RemovalFrame) /\ [][EmptyFlushFrame]_vars

\* an answered flush has taken the 200 oldest rows of a queue of 201 and left the last
FlushFrame_Witness ==
    /\ Len(created) = SyncLimit + 1
    /\ Cardinality(flushed) = SyncLimit
    /\ Len(pending) = 1
    /\ pending[1].client_event_id = SyncLimit + 1
    /\ last.op = "sync"

(***************************************************************************)
(* Properties of the audit trail of the ingestion.                         *)
(***************************************************************************)
PresenceAudits(aud) == {a \in aud : a.azione = "presence"}

\* C31: every accepted ingestion writes exactly one audit record and nothing else on
\* the ingestion path does: the presence audit records are as many as the Presenza
\* rows, one for the id of each row.
OneAuditPerRow ==
    /\ Cardinality(PresenceAudits(audit)) = Len(presenze)
    /\ \A r \in Range(presenze) : PresenceAudit(r) \in audit
    /\ \A a \in PresenceAudits(audit) : \E r \in Range(presenze) : a = PresenceAudit(r)

\* a row is stored, and the last request was a replay or a rejection
OneAuditPerRow_Witness ==
    /\ Len(presenze) = 2
    /\ last.op \in {"check_in", "check_out", "sync"}
    /\ last.outcomes \in {<<"replay">>, <<"consecutivo">>, <<"uscita_senza_entrata">>}

(***************************************************************************)
(* Properties of a replay with another payload.                            *)
(***************************************************************************)
\* C32: a request whose client_event_id is stored, whatever child, device, time and
\* type it carries and whichever endpoint it calls (a check-out with the id of a stored
\* check-in too), returns the stored row, changes no field of it and stores no second
\* event.
ReplayKeepsOriginal ==
    \A r \in Range(presenze) :
        \A t \in Targets, tipo \in PresenceEventType, ts \in Times :
            \A res \in NewEvent(tipo, t, r.client_event_id, ts) :
                /\ res.status = 200
                /\ res.row = r
                /\ NothingWritten(res)

\* a check-out carrying the id of the stored check-in has been answered as a replay
ReplayKeepsOriginal_Witness ==
    /\ Len(presenze) = 1
    /\ presenze[1].tipo_evento = ENTRATA
    /\ last.op = "check_out"
    /\ last.outcomes = <<"replay">>

(***************************************************************************)
(* Properties of a /sync batch that ends in an error.                      *)
(***************************************************************************)
\* errors of the database, which are no HTTPException
DbErrors == {"IntegrityError", "DeadlockDetected"}

Failed(t) == Range(txs[t].outcomes) \cap DbErrors # {}

\* the pending_events table of a client whose queue is the batch of session t
QueueOf(t) ==
    IF Len(txs[t].events) = 1 THEN enqueue_event(<<>>, txs[t].events[1])
    ELSE enqueue_event(enqueue_event(<<>>, txs[t].events[1]), txs[t].events[2])

\* what _sync_pending makes of that queue on the answer of session t
QueueAfterAnswer(t) ==
    QueueAfterSync(QueueOf(t), SyncBatch(QueueOf(t)), txs[t].status, txs[t].accepted,
                   txs[t].skipped, ErrorText("unavailable", [status |-> txs[t].status]),
                   ClockNow(used_ids))

\* a /sync that met an error of the database has ended without a commit, is answered
\* as a failure, and the client keeps every row of the batch
FailedBatchDropped ==
    \A t \in Txs :
        (txs[t].op = "sync" /\ Failed(t)) =>
            /\ txs[t].pc = "done"
            /\ txs[t].writes = <<>>
            /\ txs[t].waudit = {}
            /\ txs[t].status = 500
            /\ PendingIds(QueueAfterAnswer(t)) = PendingIds(QueueOf(t))

\* the tables change only at the commit of a session that met no such error, after its
\* last event, and by all it has flushed
CommitOnce ==
    (presenze' # presenze \/ audit' # audit) =>
        \E t \in Txs :
            /\ txs[t].pc = "commit"
            /\ txs[t].i = Len(txs[t].events)
            /\ ~Failed(t)
            /\ presenze' = presenze \o txs[t].writes
            /\ audit' = audit \cup txs[t].waudit

\* C33: a /sync batch commits once, after its last event; when the loop stops on an
\* error that is no validation rejection (a uniqueness violation at the INSERT), no event
\* of the batch is persisted, the client gets a failure and keeps the whole batch pending.
BatchAllOrNothing == [](FailedBatchDropped) /\ [][CommitOnce]_vars

\* a batch of two events: the first was flushed, the second met the unique index, and
\* the first is in no table
BatchAllOrNothing_Witness ==
    \E t \in Txs :
        /\ txs[t].op = "sync"
        /\ txs[t].pc = "done"
        /\ txs[t].outcomes = <<"created", "IntegrityError">>
        /\ txs[t].events[1].client_event_id \notin StoredIds(presenze)
        /\ txs[t].events[2].client_event_id \in StoredIds(presenze)

(***************************************************************************)
(* Properties of the occupancy flag.                                       *)
(***************************************************************************)
\* the values of dentro the answer may give for the child
Dentro ==
    {row.dentro : row \in list_bambini_presence_state(presenze, bambino_attivo,
                                                      ClientDevice, ClientChild, clock)}

\* whether a new event of the child through the device is accepted
Accepted(tipo) ==
    {res.status = 200 :
        res \in NewEvent(tipo, <<ClientChild, ClientDevice>>, Len(presenze) + 1, clock)}

\* the stored events of the child and site that no other is later than
GreatestTimestamp ==
    {r \in KeyRows(presenze, ClientChild, BambinoSede[ClientChild]) :
        \A o \in KeyRows(presenze, ClientChild, BambinoSede[ClientChild]) :
            o.timestamp_evento <= r.timestamp_evento}

\* C34: the occupancy flag agrees with the ingestion.  For a listed child, dentro is
\* true exactly when the stored event of greatest timestamp_evento of the child and
\* site is a CHECK_IN, which is exactly when a new CHECK_OUT is accepted and a new
\* CHECK_IN rejected.
OccupancyAgreesWithIngestion ==
    bambino_attivo[ClientChild] =>
        \A dentro \in {Dentro} :
            /\ dentro = {r.tipo_evento = ENTRATA : r \in GreatestTimestamp}
                          \cup (IF GreatestTimestamp = {} THEN {FALSE} ELSE {})
            /\ dentro = Accepted(USCITA)
            /\ dentro = {~a : a \in Accepted(ENTRATA)}
            /\ last.op = "presenze_stato" => last.row.dentro \in dentro

\* the answer says dentro of a child whose open CHECK_IN is of the day before
OccupancyAgreesWithIngestion_Witness ==
    /\ last.op = "presenze_stato"
    /\ last.row.dentro
    /\ last.row.events = <<>>
    /\ Len(presenze) = 3

(***************************************************************************)
(* Bounds of the total of compute_presence_summary.                        *)
(***************************************************************************)
\* the total is not negative and not more than the length of the period
WithinPeriod(row) ==
    /\ row.tempo_totale_secondi >= 0
    /\ row.tempo_totale_secondi * TicksPerSecond <= row.period_end - row.period_start

\* the list without its last event, summarised for the same period at the same time
Before(row) ==
    compute_presence_summary(SubSeq(row.events, 1, Len(row.events) - 1),
                             row.period_start, row.period_end, row.now)

\* a USCITA that finds no open entry adds nothing
UscitaWithoutEntryAddsNothing(row) ==
    (/\ row.events # <<>>
     /\ row.events[Len(row.events)].tipo_evento = USCITA
     /\ Before(row).open_entry = NoTime)
        => /\ row.tempo_totale_secondi = Before(row).total_seconds
           /\ row.open_entry = NoTime

\* an ENTRATA, repeated or not, opens the entry at its own time or at the period start
EntrataRestartsEntry(row) ==
    (/\ row.events # <<>>
     /\ row.events[Len(row.events)].tipo_evento = ENTRATA)
        => row.open_entry = Max(row.events[Len(row.events)].timestamp_evento, row.period_start)

LatestBefore(row) ==
    LET before == {r \in KeyRows(presenze, ClientChild, BambinoSede[ClientChild]) :
                      r.timestamp_evento < row.period_start}
    IN  {r \in before : \A o \in before : o.timestamp_evento <= r.timestamp_evento}

\* the child was inside when the period began
InsideAtPeriodStart(row) ==
    /\ LatestBefore(row) # {}
    /\ \A r \in LatestBefore(row) : r.tipo_evento = ENTRATA

\* the seconds from the period start to the first USCITA of the period, or to
\* min(now, period_end) when the period has no event
FromPeriodStart(row) ==
    IF row.events = <<>>
    THEN total_seconds_int(Max(0, Min(row.now, row.period_end) - row.period_start))
    ELSE total_seconds_int(row.events[1].timestamp_evento - row.period_start)
           + compute_presence_summary(Tail(row.events), row.period_start,
                                      row.period_end, row.now).total_seconds

\* C36: a stay that began before the period start is counted from the period start.
\* When the CHECK_IN of the child precedes period_start and the period holds the
\* matching CHECK_OUT, or no event yet, the total of the day or month projection
\* counts the time from period_start to the CHECK_OUT, or to min(now, period_end).
StayCountedFromPeriodStart ==
    (/\ IsSummary
     /\ InsideAtPeriodStart(last.row)
     /\ (last.row.events = <<>> \/ last.row.events[1].tipo_evento = USCITA))
        => last.row.tempo_totale_secondi = FromPeriodStart(last.row)

(***************************************************************************)
(* The live total of the dashboard.                                        *)
(***************************************************************************)
\* the total the dashboard shows at the present clock for the last answer it was given
DisplayedTotal == update_presence_timers(set_presence_rows(last.row), clock)

\* C37: the live total the dashboard shows for a child who is inside is the closed
\* duration of today plus the time since the open CHECK_IN: at any refresh time t,
\* displayed total = (seconds of the closed intervals of today) + (t - openSince).
LiveTotalCountsOnce ==
    (last.op = "presenze_stato" /\ last.row.dentro /\ Alternates(last.row.events)) =>
        DisplayedTotal
          = SumOver(WholeSeconds, last.row.events, Len(last.row.events) \div 2)
              + WholeSeconds(clock - last.row.entrata_aperta_da)


(***************************************************************************)
(* Properties of the session of the desktop client.                        *)
(***************************************************************************)
\* sync_timer runs exactly while the dashboard of a logged-in user is shown
TimerOnlyInSession ==
    /\ session.sync_timer <=> session.view = "dashboard"
    /\ session.view = "dashboard" => session.access_token

\* the rows of q whose ids are in ids, as they are sent
PayloadsOf(q, ids) == SyncPayload(SelectSeq(q, LAMBDA r : r.client_event_id \in ids))

\* a logout, a login or a start: the pending rows stay as they are, but for those the
\* flush of the login has had answered, and for the note of a failed attempt
SessionFrame ==
    session' # session =>
        /\ PendingIds(pending') \subseteq PendingIds(pending)
        /\ \A ids \in {PendingIds(pending')} : SyncPayload(pending') = PayloadsOf(pending, ids)
        /\ PendingIds(pending) \ PendingIds(pending') \subseteq flushed'
        /\ ~session'.sync_timer => pending' = pending

\* while the session lasts, a pending event leaves the queue
QueuedEventsFlushed ==
    \A id \in 1..MaxSessionClicks :
        (id \in PendingIds(pending) /\ session.sync_timer)
            ~> (id \notin PendingIds(pending) \/ ~session.sync_timer)

====
